---- MODULE Spec2Model ----
(***************************************************************************)
(* A model of the Linux-Support question-and-answer forum: the storage     *)
(* layer (DatabaseStorage) and the HTTP handlers of server/routes.ts that  *)
(* call it.  Tables are partial functions from row ids to rows.  Every SQL *)
(* statement of the storage layer is an operator from tables to tables;    *)
(* a handler is the composition of the statements it awaits, either as one *)
(* action (a request that runs alone) or statement by statement (requests  *)
(* that interleave at their awaits).                                       *)
(***************************************************************************)
EXTENDS Integers, Sequences, FiniteSets, TLC

VARIABLES
    users,          \* users table: id -> [username, password, role, karma]
    questions,      \* questions table: id -> [userId, answerCount]
    answers,        \* answers table: id -> [questionId, userId, isAccepted]
    nextAnswerId,   \* number of answer ids handed out so far (ids are never reused)
    sessions,       \* sessions table: id -> [userId, createdAt, expiresAt]
    nextSessionId,  \* number of session ids handed out so far (ids are never reused)
    loginRole,      \* history: session id -> the role its user had when it was created
    resetTokens,    \* password_reset_tokens table:
                    \*   id -> [userId, createdAt, expiresAt, usedAt]
    now,            \* the clock, in hours
    last,           \* the request that completed last, and its response
    reqs,           \* requests in flight: slot -> the request's position and locals
    consumed,       \* history: reset tokens through which a reset has succeeded
    pwVia,          \* history: user id -> token that last replaced the password (0: none)
    resetBodies     \* history: userExists -> response body of request-reset seen

vars == <<users, questions, answers, nextAnswerId, sessions, nextSessionId, loginRole,
          resetTokens,
          now, last, reqs, consumed, pwVia, resetBodies>>

(***************************************************************************)
(* Bounds of the model.                                                    *)
(***************************************************************************)
MaxAnswers == 2
MaxKarma == 4
MaxDelta == 3
MaxTokens == 2
MaxTime == 2
MaxUsers == 2

NoId == 0     \* an absent id: no session user, a null foreign key

Roles == {"owner", "admin", "moderator", "member"}

(***************************************************************************)
(* Reward table.  The shared schema that defines KARMA_REWARDS is not part *)
(* of the sources; the entries are signed policy constants (section 4.3),  *)
(* positive for a contribution or an upvote, negative for a downvote.      *)
(***************************************************************************)
POST_ANSWER == 1
ANSWER_ACCEPTED == 2
ASK_QUESTION == 1
QUESTION_UPVOTED == 1
QUESTION_DOWNVOTED == 0 - 1
ANSWER_UPVOTED == 2
ANSWER_DOWNVOTED == 0 - 1

(***************************************************************************)
(* Responses.                                                              *)
(***************************************************************************)
\* op: the handler; actor: the session user (NoId without a session); id: the row
\* the request created, changed or removed (NoId when none); status: the HTTP
\* status; arg: a numeric argument of the call; pre: the counter the request is
\* about (answerCount of the parent, karma of the user) as it was before the request;
\* undo: the request removed the row that the request just before it created.
\* role: the role the request body asked for (of a listing: the category slug);
\* error: the kind of failure; dir: the vote direction the request body asked for (of
\* a listing: the sort); body: the question in the request body (create) or in the
\* response (get); list: the ids of the questions in the response; seen: the value
\* the counter had when the call was made (pre is its value when the statement ran).
NoQuestion ==
    [userId |-> NoId, title |-> "", content |-> "", categoryId |-> NoId, votes |-> 0,
     viewCount |-> 0, answerCount |-> 0, isPinned |-> FALSE, createdAt |-> 0]

NoLast ==
    [op |-> "none", actor |-> NoId, id |-> NoId, status |-> 0, arg |-> 0, pre |-> 0,
     undo |-> FALSE, role |-> "", error |-> "", dir |-> "", body |-> NoQuestion,
     list |-> {}, seen |-> 0]

Resp(op, actor, id, status) ==
    [NoLast EXCEPT !.op = op, !.actor = actor, !.id = id, !.status = status]

\* A request in flight: the storage call it is in, the statement it runs next (pc),
\* its session user, the row id it carries (an answer id, a reset token), the id of
\* the row that one refers to (ref: the question of the answer, the user of the
\* token), as carried or as read, the index of the password it carries (arg), the
\* username it carries (name) and, for a call that changes a counter, the value the
\* counter had when the call was made (seen; the code reads no such value, it is kept
\* to tell a statement that works on the stored value from one that would not).
Req(op, pc, actor, id, ref, arg) ==
    [op |-> op, pc |-> pc, actor |-> actor, id |-> id, ref |-> ref, arg |-> arg,
     name |-> "", seen |-> 0]

Idle == Req("idle", "", NoId, NoId, NoId, 0)

(***************************************************************************)
(* Authorization helpers of routes.ts.                                     *)
(***************************************************************************)
canModerate(us, actor) ==
    actor \in DOMAIN us /\ us[actor].role \in {"owner", "admin", "moderator"}

\* requireAuth: 401 without a session user, else pass (0).
requireAuth(us, actor) == IF actor \notin DOMAIN us THEN 401 ELSE 0

\* requireRole(...roles): 401 without a session user, 403 outside roles, else pass.
requireRole(us, actor, roles) ==
    IF actor \notin DOMAIN us THEN 401
    ELSE IF us[actor].role \notin roles THEN 403
    ELSE 0

(***************************************************************************)
(* Storage statements (DatabaseStorage).                                   *)
(***************************************************************************)
\* addKarma: UPDATE users SET karma = GREATEST(0, karma + amount) WHERE id = userId
addKarmaUnclamped(us, userId, amount) ==
    [u \in DOMAIN us |->
        IF u = userId THEN [us[u] EXCEPT !.karma = us[u].karma + amount] ELSE us[u]]

addKarma(us, userId, amount) ==
    [u \in DOMAIN us |->
        IF u = userId
        THEN [us[u] EXCEPT !.karma = IF us[u].karma + amount > 0
                                     THEN us[u].karma + amount ELSE 0]
        ELSE us[u]]

\* getAnswersByQuestionId: the ids of the rows with that questionId
getAnswersByQuestionId(ans, questionId) ==
    {a \in DOMAIN ans : ans[a].questionId = questionId}

\* createAnswer, first statement: INSERT INTO answers (isAccepted defaults to false)
InsertAnswer(ans, id, questionId, userId) ==
    ans @@ (id :> [questionId |-> questionId, userId |-> userId, isAccepted |-> FALSE])

\* createAnswer / deleteAnswer, counter statement:
\* UPDATE questions SET answer_count = answer_count + d WHERE id = questionId
BumpAnswerCountIgnoringSign(qs, questionId, d) ==
    [q \in DOMAIN qs |->
        IF q = questionId THEN [qs[q] EXCEPT !.answerCount = qs[q].answerCount + 1]
        ELSE qs[q]]

BumpAnswerCount(qs, questionId, d) ==
    [q \in DOMAIN qs |->
        IF q = questionId THEN [qs[q] EXCEPT !.answerCount = qs[q].answerCount + d]
        ELSE qs[q]]

\* deleteAnswer, second statement: DELETE FROM answers WHERE id = id
DeleteAnswerRow(ans, id) == [a \in DOMAIN ans \ {id} |-> ans[a]]

\* A first statement that clears nothing
ClearAcceptedNone(ans, questionId) == ans

\* acceptAnswer, first statement: UPDATE answers SET is_accepted = false
\* WHERE question_id = questionId
ClearAccepted(ans, questionId) ==
    [a \in DOMAIN ans |->
        IF ans[a].questionId = questionId THEN [ans[a] EXCEPT !.isAccepted = FALSE]
        ELSE ans[a]]

\* acceptAnswer, second statement: UPDATE answers SET is_accepted = true WHERE id = id
SetAccepted(ans, id) ==
    [a \in DOMAIN ans |->
        IF a = id THEN [ans[a] EXCEPT !.isAccepted = TRUE] ELSE ans[a]]

acceptAnswer(ans, id, questionId) == SetAccepted(ClearAccepted(ans, questionId), id)

\* createAnswer as one call: the insert (rejected by the foreign key when the
\* question row is absent), then the counter statement
createAnswerOk(qs, questionId) == questionId \in DOMAIN qs

\* deleteAnswer as one call: select, then delete and decrement when the row was found
deleteAnswerAnswers(ans, id) ==
    IF id \in DOMAIN ans THEN DeleteAnswerRow(ans, id) ELSE ans

deleteAnswerQuestions(qs, ans, id) ==
    IF id \in DOMAIN ans THEN BumpAnswerCount(qs, ans[id].questionId, -1) ELSE qs

(***************************************************************************)
(* Initial tables.                                                         *)
(***************************************************************************)
\* bcrypt.hash: a one-way image of the password, never the password itself
Hash(pw) == <<"bcrypt", pw>>

\* users.karma: the column's default (section 3: default karma = 0); the version of
\* the shared schema that declares the column is not part of the sources
DefaultKarma == 0

\* A user row as createUser leaves it, with the role it has since been given
UserRow(username, pw, role) ==
    [username |-> username, password |-> Hash(pw), role |-> role, karma |-> DefaultKarma]

EmptyTable == <<>>

\* The body of a request-reset response: the fields a client can tell apart
NoBody == [success |-> FALSE, message |-> "", token |-> FALSE]

Slots == {1, 2}

InitRest ==
    /\ nextAnswerId = 0
    /\ sessions = EmptyTable
    /\ nextSessionId = 0
    /\ loginRole = EmptyTable
    /\ resetTokens = EmptyTable
    /\ now = 0
    /\ last = NoLast
    /\ reqs = [s \in Slots |-> Idle]
    /\ consumed = {}
    /\ pwVia = EmptyTable
    /\ resetBodies = [e \in BOOLEAN |-> NoBody]

\* A forum with two members, each the author of one question, and a moderator.
InitContent ==
    /\ users = (1 :> UserRow("alice", "secret1", "member"))
            @@ (2 :> UserRow("bob", "secret1", "member"))
            @@ (3 :> UserRow("carol", "secret1", "moderator"))
    /\ questions = (1 :> [userId |-> 1, answerCount |-> 0])
                @@ (2 :> [userId |-> 2, answerCount |-> 0])
    /\ answers = EmptyTable
    /\ InitRest

Actors == {NoId, 1, 2, 3}
Posters == {NoId, 1, 2}
QuestionIdInputs == {1, 2, 3}
AnswerIdInputs == 1 .. MaxAnswers

(***************************************************************************)
(* Content handlers, each run alone from request to response.              *)
(***************************************************************************)
unchangedReset == UNCHANGED <<sessions, nextSessionId, loginRole, resetTokens, now, consumed, pwVia, resetBodies>>

unchangedAuth == unchangedReset /\ UNCHANGED reqs

unchangedContent == UNCHANGED <<questions, answers, nextAnswerId>>

\* POST /api/questions/:id/answers
PostAnswer(actor, questionId) ==
    /\ unchangedAuth
    /\ IF requireAuth(users, actor) # 0
       THEN /\ last' = Resp("postAnswer", actor, NoId, 401)
            /\ UNCHANGED <<users, questions, answers, nextAnswerId>>
       ELSE IF ~createAnswerOk(questions, questionId)
       THEN /\ last' = Resp("postAnswer", actor, NoId, 500)
            /\ UNCHANGED <<users, questions, answers, nextAnswerId>>
       ELSE /\ nextAnswerId < MaxAnswers
            /\ users[actor].karma + POST_ANSWER <= MaxKarma
            /\ nextAnswerId' = nextAnswerId + 1
            /\ answers' = InsertAnswer(answers, nextAnswerId + 1, questionId, actor)
            /\ questions' = BumpAnswerCount(questions, questionId, 1)
            /\ users' = addKarma(users, actor, POST_ANSWER)
            /\ last' = [Resp("postAnswer", actor, nextAnswerId + 1, 201)
                          EXCEPT !.pre = questions[questionId].answerCount]

\* DELETE /api/answers/:id
DeleteAnswer(actor, id) ==
    /\ unchangedAuth
    /\ UNCHANGED <<users, nextAnswerId>>
    /\ LET gate == requireRole(users, actor, {"owner", "admin", "moderator"}) IN
       IF gate # 0
       THEN /\ last' = Resp("deleteAnswer", actor, NoId, gate)
            /\ UNCHANGED <<questions, answers>>
       ELSE /\ answers' = deleteAnswerAnswers(answers, id)
            /\ questions' = deleteAnswerQuestions(questions, answers, id)
            /\ last' = IF id \in DOMAIN answers
                       THEN [Resp("deleteAnswer", actor, id, 200) EXCEPT
                               !.pre = questions[answers[id].questionId].answerCount,
                               !.undo = (last.op = "postAnswer" /\ last.status = 201
                                         /\ last.id = id)]
                       ELSE Resp("deleteAnswer", actor, NoId, 200)

\* The check of POST /api/answers/:id/accept on the question row it was given
acceptGate(us, qs, actor, questionId) ==
    IF requireAuth(us, actor) # 0 THEN 401
    ELSE IF questionId \notin DOMAIN qs THEN 404
    ELSE IF qs[questionId].userId # actor /\ ~canModerate(us, actor) THEN 403
    ELSE 0

\* POST /api/answers/:id/accept {questionId}
AcceptAnswer(actor, id, questionId) ==
    /\ unchangedAuth
    /\ UNCHANGED <<questions, nextAnswerId>>
    /\ LET gate == acceptGate(users, questions, actor, questionId)
           found == id \in getAnswersByQuestionId(answers, questionId)
       IN
       IF gate # 0
       THEN /\ last' = Resp("acceptAnswer", actor, NoId, gate)
            /\ UNCHANGED <<users, answers>>
       ELSE /\ answers' = acceptAnswer(answers, id, questionId)
            /\ IF found /\ answers[id].userId # NoId
               THEN /\ users[answers[id].userId].karma + ANSWER_ACCEPTED <= MaxKarma
                    /\ users' = addKarma(users, answers[id].userId, ANSWER_ACCEPTED)
               ELSE users' = users
            /\ last' = Resp("acceptAnswer", actor,
                            IF id \in DOMAIN answers THEN id ELSE NoId, 200)

NextContent ==
    \/ \E actor \in Posters, q \in QuestionIdInputs : PostAnswer(actor, q)
    \/ \E actor \in Actors, id \in AnswerIdInputs : DeleteAnswer(actor, id)
    \/ \E actor \in Actors, id \in AnswerIdInputs, q \in QuestionIdInputs :
           AcceptAnswer(actor, id, q)

SpecContent == InitContent /\ [][NextContent]_vars

\* The answers of a question that are marked accepted
AcceptedOf(ans, questionId) ==
    {a \in DOMAIN ans : ans[a].questionId = questionId /\ ans[a].isAccepted}

\* C1: after any sequence of completed accept requests, whatever answerId/questionId
\* pair each one carried, every question has at most one accepted answer.
C1_AtMostOneAccepted ==
    \A q \in DOMAIN questions : Cardinality(AcceptedOf(answers, q)) <= 1

\* C2: an accept request turns isAccepted on for an answer only when its actor is
\* moderator-or-above or the author of the question that answer belongs to; for any
\* other authenticated actor the request is refused with 403 and changes no flag
\* and no karma.
C2_AcceptNeedsAuthorOrModerator ==
    [][\A actor \in Actors, id \in AnswerIdInputs, q \in QuestionIdInputs :
         (AcceptAnswer(actor, id, q) /\ actor \in DOMAIN users /\ id \in DOMAIN answers)
         =>
         LET entitled == \/ canModerate(users, actor)
                         \/ questions[answers[id].questionId].userId = actor
         IN /\ (answers'[id].isAccepted /\ ~answers[id].isAccepted) => entitled
            /\ ~entitled => (last'.status = 403 /\ answers' = answers /\ users' = users)
      ]_vars

\* C6: a successful createAnswer raises the parent's answerCount by exactly one, a
\* deleteAnswer of a stored answer lowers it by exactly one, so deleting the answer
\* that was just created restores the count it had before the create; deleting an id
\* that is not stored changes no answerCount.
C6_AnswerCountRoundTrip ==
    [][/\ (last'.op = "postAnswer" /\ last'.status = 201) =>
            LET q == answers'[last'.id].questionId IN
            /\ last'.pre = questions[q].answerCount
            /\ questions'[q].answerCount = questions[q].answerCount + 1
       /\ (last'.op = "deleteAnswer" /\ last'.status = 200 /\ last'.id # NoId) =>
            LET q == answers[last'.id].questionId IN
            /\ last'.id \notin DOMAIN answers'
            /\ questions'[q].answerCount = questions[q].answerCount - 1
            /\ last'.undo => questions'[q].answerCount = last.pre
       /\ (last'.op = "deleteAnswer" /\ last'.id = NoId) =>
            \A q \in DOMAIN questions :
                questions'[q].answerCount = questions[q].answerCount
      ]_vars

\* C6 witness: an answer was created and deleted by the next request.
C6_Witness ==
    last.op = "deleteAnswer" /\ last.status = 200 /\ last.undo /\ last.pre >= 1

\* C15: every successful accept of an answer whose author is a registered user
\* raises that author's karma by the accept reward and changes no other user's karma.
C15_AcceptRewardsAuthor ==
    [][(last'.op = "acceptAnswer" /\ last'.status = 200 /\ last'.id \in DOMAIN answers) =>
         LET author == answers[last'.id].userId IN
         author \in DOMAIN users =>
             /\ users'[author].karma = users[author].karma + ANSWER_ACCEPTED
             /\ \A u \in DOMAIN users \ {author} : users'[u].karma = users[u].karma
      ]_vars

(***************************************************************************)
(* createAnswer and deleteAnswer, statement by statement: requests         *)
(* interleave at every await of the handler and of the storage call.       *)
(***************************************************************************)
\* POST /api/questions/:id/answers passes requireAuth and calls storage.createAnswer
StartCreateAnswer(s, actor, questionId) ==
    /\ reqs[s] = Idle
    /\ requireAuth(users, actor) = 0
    /\ reqs' = [reqs EXCEPT ![s] = Req("createAnswer", "insert", actor, NoId, questionId, 0)]
    /\ UNCHANGED <<users, questions, answers, nextAnswerId, last>>
    /\ unchangedReset

\* createAnswer: INSERT INTO answers ... RETURNING; the foreign key on question_id
\* rejects the row when the question is absent and the handler answers 500
CreateAnswerInsert(s) ==
    /\ reqs[s].op = "createAnswer" /\ reqs[s].pc = "insert"
    /\ IF createAnswerOk(questions, reqs[s].ref)
       THEN /\ nextAnswerId < MaxAnswers
            /\ nextAnswerId' = nextAnswerId + 1
            /\ answers' = InsertAnswer(answers, nextAnswerId + 1, reqs[s].ref, reqs[s].actor)
            /\ reqs' = [reqs EXCEPT ![s].pc = "count", ![s].id = nextAnswerId + 1]
       ELSE /\ reqs' = [reqs EXCEPT ![s] = Idle]
            /\ UNCHANGED <<answers, nextAnswerId>>
    /\ UNCHANGED <<users, questions, last>>
    /\ unchangedReset

\* createAnswer: UPDATE questions SET answer_count = answer_count + 1; the call returns
CreateAnswerCount(s) ==
    /\ reqs[s].op = "createAnswer" /\ reqs[s].pc = "count"
    /\ questions' = BumpAnswerCount(questions, reqs[s].ref, 1)
    /\ reqs' = [reqs EXCEPT ![s].pc = "karma"]
    /\ UNCHANGED <<users, answers, nextAnswerId, last>>
    /\ unchangedReset

\* the handler: addKarma(req.user.id, POST_ANSWER), then 201
CreateAnswerKarma(s) ==
    /\ reqs[s].op = "createAnswer" /\ reqs[s].pc = "karma"
    /\ users[reqs[s].actor].karma + POST_ANSWER <= MaxKarma
    /\ users' = addKarma(users, reqs[s].actor, POST_ANSWER)
    /\ reqs' = [reqs EXCEPT ![s] = Idle]
    /\ UNCHANGED <<questions, answers, nextAnswerId, last>>
    /\ unchangedReset

\* DELETE /api/answers/:id passes requireRole and calls storage.deleteAnswer
StartDeleteAnswer(s, actor, id) ==
    /\ reqs[s] = Idle
    /\ requireRole(users, actor, {"owner", "admin", "moderator"}) = 0
    /\ reqs' = [reqs EXCEPT ![s] = Req("deleteAnswer", "select", actor, id, NoId, 0)]
    /\ UNCHANGED <<users, questions, answers, nextAnswerId, last>>
    /\ unchangedReset

\* deleteAnswer: SELECT * FROM answers WHERE id = id; nothing more when no row
DeleteAnswerSelect(s) ==
    /\ reqs[s].op = "deleteAnswer" /\ reqs[s].pc = "select"
    /\ reqs' = IF reqs[s].id \in DOMAIN answers
               THEN [reqs EXCEPT ![s].pc = "delete",
                                 ![s].ref = answers[reqs[s].id].questionId]
               ELSE [reqs EXCEPT ![s] = Idle]
    /\ UNCHANGED <<users, questions, answers, nextAnswerId, last>>
    /\ unchangedReset

\* deleteAnswer: DELETE FROM answers WHERE id = id
DeleteAnswerDelete(s) ==
    /\ reqs[s].op = "deleteAnswer" /\ reqs[s].pc = "delete"
    /\ answers' = deleteAnswerAnswers(answers, reqs[s].id)
    /\ reqs' = [reqs EXCEPT ![s].pc = "count"]
    /\ UNCHANGED <<users, questions, nextAnswerId, last>>
    /\ unchangedReset

\* deleteAnswer: UPDATE questions SET answer_count = answer_count - 1
\* WHERE id = answer.questionId, the row read by the select
DeleteAnswerCount(s) ==
    /\ reqs[s].op = "deleteAnswer" /\ reqs[s].pc = "count"
    /\ questions' = BumpAnswerCount(questions, reqs[s].ref, -1)
    /\ reqs' = [reqs EXCEPT ![s] = Idle]
    /\ UNCHANGED <<users, answers, nextAnswerId, last>>
    /\ unchangedReset

NextAnswers ==
    \/ \E s \in Slots, actor \in Posters, q \in QuestionIdInputs :
           StartCreateAnswer(s, actor, q)
    \/ \E s \in Slots : CreateAnswerInsert(s)
    \/ \E s \in Slots : CreateAnswerCount(s)
    \/ \E s \in Slots : CreateAnswerKarma(s)
    \/ \E s \in Slots, actor \in Actors, id \in AnswerIdInputs :
           StartDeleteAnswer(s, actor, id)
    \/ \E s \in Slots : DeleteAnswerSelect(s)
    \/ \E s \in Slots : DeleteAnswerDelete(s)
    \/ \E s \in Slots : DeleteAnswerCount(s)

SpecAnswers == InitContent /\ [][NextAnswers]_vars

\* A createAnswer or deleteAnswer storage call has started and not yet returned
AnswerCallInProgress ==
    \E s \in Slots :
        \/ reqs[s].op = "createAnswer" /\ reqs[s].pc \in {"insert", "count"}
        \/ reqs[s].op = "deleteAnswer"

LiveAnswerCount(q) == Cardinality(getAnswersByQuestionId(answers, q))

\* C5: whenever no createAnswer or deleteAnswer call is in progress, every stored
\* question's answerCount is the number of stored answers that reference it,
\* whatever the interleaving of the calls before.
C5_AnswerCountIsLiveCount ==
    ~AnswerCallInProgress =>
        \A q \in DOMAIN questions : questions[q].answerCount = LiveAnswerCount(q)

(***************************************************************************)
(* addKarma called directly, with any signed amount.                       *)
(***************************************************************************)
UserIdInputs == {1, 2, 3, 4}
Amounts == (0 - MaxDelta) .. MaxDelta

AddKarmaCall(userId, amount) ==
    /\ userId \in DOMAIN users => users[userId].karma + amount <= MaxKarma
    /\ users' = addKarma(users, userId, amount)
    /\ last' = [NoLast EXCEPT !.op = "addKarma",
                              !.id = IF userId \in DOMAIN users THEN userId ELSE NoId,
                              !.arg = amount,
                              !.pre = IF userId \in DOMAIN users
                                      THEN users[userId].karma ELSE 0]
    /\ UNCHANGED <<questions, answers, nextAnswerId, reqs>>
    /\ unchangedReset

NextKarma == \E userId \in UserIdInputs, amount \in Amounts : AddKarmaCall(userId, amount)

SpecKarma == InitContent /\ [][NextKarma]_vars

\* C3: every user's karma is at least 0 in every reachable state, whatever signed
\* amounts addKarma has been called with.
C3_KarmaNeverNegative == \A u \in DOMAIN users : users[u].karma >= 0

\* C3 witness: a negative amount larger than the user's karma was applied and the
\* karma stopped at 0.
C3_Witness ==
    /\ last.op = "addKarma" /\ last.id # NoId
    /\ last.pre > 0 /\ last.pre + last.arg < 0
    /\ users[last.id].karma = 0

(***************************************************************************)
(* PATCH /api/admin/users/:id/role                                         *)
(***************************************************************************)
\* updateUserRoleSchema: z.enum(["admin", "moderator", "member"])
AssignableRoles == {"admin", "moderator", "member"}

\* storage.updateUserRole: UPDATE users SET role = role WHERE id = id
updateUserRole(us, id, role) ==
    [u \in DOMAIN us |-> IF u = id THEN [us[u] EXCEPT !.role = role] ELSE us[u]]

\* The checks without the one that protects an owner
changeRoleStatusOwnerUnprotected(us, actor, targetId, role) ==
    LET gate == requireRole(us, actor, {"owner", "admin"}) IN
    IF gate # 0 THEN gate
    ELSE IF role \notin AssignableRoles THEN 400
    ELSE IF targetId \notin DOMAIN us THEN 404
    ELSE IF role = "admin" /\ us[actor].role # "owner" THEN 403
    ELSE IF us[targetId].role = "admin" /\ us[actor].role # "owner" THEN 403
    ELSE 200

\* The handler's checks in the order the code makes them; 200 when all pass
changeRoleStatusAdminsEqual(us, actor, targetId, role) ==
    LET gate == requireRole(us, actor, {"owner", "admin"}) IN
    IF gate # 0 THEN gate
    ELSE IF role \notin AssignableRoles THEN 400
    ELSE IF targetId \notin DOMAIN us THEN 404
    ELSE IF us[targetId].role = "owner" THEN 403
    ELSE IF role = "admin" /\ us[actor].role # "owner" THEN 403
    ELSE 200

changeRoleStatus(us, actor, targetId, role) ==
    LET gate == requireRole(us, actor, {"owner", "admin"}) IN
    IF gate # 0 THEN gate
    ELSE IF role \notin AssignableRoles THEN 400
    ELSE IF targetId \notin DOMAIN us THEN 404
    ELSE IF us[targetId].role = "owner" THEN 403
    ELSE IF role = "admin" /\ us[actor].role # "owner" THEN 403
    ELSE IF us[targetId].role = "admin" /\ us[actor].role # "owner" THEN 403
    ELSE 200

ChangeRole(actor, targetId, role) ==
    LET status == changeRoleStatus(users, actor, targetId, role) IN
    /\ users' = IF status = 200 THEN updateUserRole(users, targetId, role) ELSE users
    /\ last' = [NoLast EXCEPT !.op = "changeRole", !.actor = actor,
                              !.id = IF targetId \in DOMAIN users THEN targetId ELSE NoId,
                              !.status = status, !.role = role]
    /\ UNCHANGED <<questions, answers, nextAnswerId, reqs>>
    /\ unchangedReset

\* One user of each role; the owner can make a second admin.
InitRole ==
    /\ users = (1 :> UserRow("olga", "secret1", "owner"))
            @@ (2 :> UserRow("adam", "secret1", "admin"))
            @@ (3 :> UserRow("mona", "secret1", "moderator"))
            @@ (4 :> UserRow("mick", "secret1", "member"))
    /\ questions = EmptyTable
    /\ answers = EmptyTable
    /\ InitRest

RoleActors == {NoId, 1, 2, 3, 4}
RoleTargets == {1, 2, 3, 4, 5}

NextRole ==
    \E actor \in RoleActors, targetId \in RoleTargets, role \in Roles :
        ChangeRole(actor, targetId, role)

SpecRole == InitRole /\ [][NextRole]_vars

\* The four conditions of the role-change rule, on the roles the request found
RoleRuleHolds(actorRole, targetRole, newRole) ==
    /\ actorRole \in {"admin", "owner"}
    /\ targetRole # "owner"
    /\ newRole = "admin" => actorRole = "owner"
    /\ targetRole = "admin" => actorRole = "owner"

\* C4 as stated: a role-change request by a signed-in actor on a stored target
\* succeeds only if the rule holds, and every request that breaks the rule is
\* refused with 403 Forbidden and leaves the target's role as it was.
C4_RoleChangeRuleForbidden ==
    [][(last'.op = "changeRole" /\ last'.actor # NoId /\ last'.id # NoId) =>
         LET rule == RoleRuleHolds(users[last'.actor].role, users[last'.id].role,
                                   last'.role)
         IN /\ last'.status = 200 => rule
            /\ ~rule => /\ last'.status = 403
                        /\ users'[last'.id].role = users[last'.id].role
      ]_vars

\* C4 as amended: as above, but a request that breaks the rule is refused with 400
\* (validation) when the actor is admin or owner and the requested role is not one of
\* admin, moderator, member, and with 403 otherwise; a request succeeds only for a
\* requested role among those three; an owner promoting a member to admin succeeds.
C4_RoleChangeRule ==
    [][(last'.op = "changeRole" /\ last'.actor # NoId /\ last'.id # NoId) =>
         LET actorRole == users[last'.actor].role
             targetRole == users[last'.id].role
             rule == RoleRuleHolds(actorRole, targetRole, last'.role)
         IN /\ last'.status = 200 => (rule /\ last'.role \in AssignableRoles)
            /\ ~rule => /\ last'.status =
                              IF actorRole \in {"admin", "owner"}
                                 /\ last'.role \notin AssignableRoles
                              THEN 400 ELSE 403
                        /\ users'[last'.id].role = targetRole
            /\ (actorRole = "owner" /\ targetRole = "member" /\ last'.role = "admin") =>
                   (last'.status = 200 /\ users'[last'.id].role = "admin")
            /\ (actorRole = "admin" /\ targetRole = "admin") =>
                   (last'.status # 200 /\ users'[last'.id].role = "admin")
      ]_vars

\* C4 witness: an admin asked to demote another admin and was refused with 403.
C4_Witness ==
    /\ last.op = "changeRole" /\ last.status = 403 /\ last.role = "member"
    /\ last.actor # NoId /\ last.id # NoId /\ last.actor # last.id
    /\ users[last.actor].role = "admin" /\ users[last.id].role = "admin"

(***************************************************************************)
(* Password reset.  The clock counts hours.                                *)
(***************************************************************************)
\* createPasswordResetToken: expiresAt = Date.now() + 60 * 60 * 1000
RESET_TOKEN_HOURS == 1

NullTime == 0 - 1     \* usedAt IS NULL

\* getUserByUsername: the id of the row with that username, NoId when none
getUserByUsername(us, username) ==
    IF \E u \in DOMAIN us : us[u].username = username
    THEN CHOOSE u \in DOMAIN us : us[u].username = username
    ELSE NoId

\* createPasswordResetToken: INSERT INTO password_reset_tokens (userId, token,
\* expiresAt); the token is 32 fresh random bytes, here the id of the row
createPasswordResetToken(toks, id, userId, t) ==
    toks @@ (id :> [userId |-> userId, createdAt |-> t,
                    expiresAt |-> t + RESET_TOKEN_HOURS, usedAt |-> NullTime])

\* The two response bodies of POST /api/auth/request-reset
requestResetBody(found) ==
    IF found
    THEN [success |-> TRUE, message |-> "Password reset token generated", token |-> TRUE]
    ELSE [success |-> TRUE,
          message |-> "If the account exists, a reset link will be generated",
          token |-> FALSE]

\* getPasswordResetToken: the row with that token whose expiresAt > now and whose
\* usedAt IS NULL, joined with its user; NoId when none
getPasswordResetTokenIgnoringUsed(toks, us, token, t) ==
    IF /\ token \in DOMAIN toks
       /\ toks[token].userId \in DOMAIN us
       /\ toks[token].expiresAt > t
    THEN token ELSE NoId

getPasswordResetToken(toks, us, token, t) ==
    IF /\ token \in DOMAIN toks
       /\ toks[token].userId \in DOMAIN us
       /\ toks[token].expiresAt > t
       /\ toks[token].usedAt = NullTime
    THEN token ELSE NoId

\* usePasswordResetToken, first write: UPDATE users SET password = hash WHERE id = userId
SetPassword(us, userId, pw) ==
    [u \in DOMAIN us |-> IF u = userId THEN [us[u] EXCEPT !.password = Hash(pw)] ELSE us[u]]

\* A second write that marks every token of the token's user
MarkTokensOfUserUsed(toks, token, t) ==
    [k \in DOMAIN toks |->
        IF toks[k].userId = toks[token].userId THEN [toks[k] EXCEPT !.usedAt = t]
        ELSE toks[k]]

\* usePasswordResetToken, second write:
\* UPDATE password_reset_tokens SET used_at = now WHERE token = token
MarkTokenUsed(toks, token, t) ==
    [k \in DOMAIN toks |-> IF k = token THEN [toks[k] EXCEPT !.usedAt = t] ELSE toks[k]]

Usernames == {"alice", "bob", "zed"}
Passwords == {"secret1", "secret2"}
TokenInputs == 1 .. (MaxTokens + 1)

\* Two registered members.
InitReset ==
    /\ users = (1 :> UserRow("alice", "secret1", "member"))
            @@ (2 :> UserRow("bob", "secret1", "member"))
    /\ questions = EmptyTable
    /\ answers = EmptyTable
    /\ InitRest

\* POST /api/auth/request-reset {username}
RequestReset(username) ==
    LET userId == getUserByUsername(users, username)
        id == Cardinality(DOMAIN resetTokens) + 1
    IN
    /\ userId # NoId => id <= MaxTokens
    /\ resetTokens' = IF userId # NoId
                      THEN createPasswordResetToken(resetTokens, id, userId, now)
                      ELSE resetTokens
    /\ resetBodies' = [resetBodies EXCEPT ![userId # NoId] = requestResetBody(userId # NoId)]
    /\ last' = [NoLast EXCEPT !.op = "requestReset", !.status = 200,
                              !.id = IF userId # NoId THEN id ELSE NoId]
    /\ UNCHANGED <<users, sessions, nextSessionId, loginRole, now, reqs, consumed, pwVia>>
    /\ unchangedContent

\* POST /api/auth/reset-password {token, newPassword}, run alone
ConsumeReset(token, pw) ==
    LET found == getPasswordResetToken(resetTokens, users, token, now) IN
    /\ IF found = NoId
       THEN /\ last' = [NoLast EXCEPT !.op = "consumeReset", !.arg = token,
                                      !.status = 400, !.error = "InvalidOrExpiredToken"]
            /\ UNCHANGED <<users, resetTokens, consumed, pwVia>>
       ELSE /\ users' = SetPassword(users, resetTokens[token].userId, pw)
            /\ resetTokens' = MarkTokenUsed(resetTokens, token, now)
            /\ consumed' = consumed \cup {token}
            /\ pwVia' = (resetTokens[token].userId :> token) @@ pwVia
            /\ last' = [NoLast EXCEPT !.op = "consumeReset", !.arg = token,
                                      !.id = token, !.status = 200]
    /\ UNCHANGED <<sessions, nextSessionId, loginRole, now, reqs, resetBodies>>
    /\ unchangedContent

\* An hour passes
Tick ==
    /\ now < MaxTime
    /\ now' = now + 1
    /\ last' = [NoLast EXCEPT !.op = "tick"]
    /\ UNCHANGED <<users, sessions, nextSessionId, loginRole, resetTokens, reqs, consumed, pwVia, resetBodies>>
    /\ unchangedContent

NextReset ==
    \/ \E username \in Usernames : RequestReset(username)
    \/ \E token \in TokenInputs, pw \in Passwords : ConsumeReset(token, pw)
    \/ Tick

SpecReset == InitReset /\ [][NextReset]_vars

\* C7: once a reset through a token has succeeded, every later reset with that token
\* is refused as InvalidOrExpiredToken and changes no password; so is a reset with
\* an unknown token or one whose expiresAt is not later than now.
C7_TokenSingleUse ==
    [][(/\ last'.op = "consumeReset"
        /\ \/ last'.arg \in consumed
           \/ last'.arg \notin DOMAIN resetTokens
           \/ resetTokens[last'.arg].expiresAt <= now)
       => /\ last'.status = 400 /\ last'.error = "InvalidOrExpiredToken"
          /\ users' = users
      ]_vars

\* C7 witness: a token that has not expired was presented again after a reset
\* through it had succeeded, and was refused.
C7_Witness ==
    /\ last.op = "consumeReset" /\ last.status = 400
    /\ last.arg \in consumed
    /\ resetTokens[last.arg].expiresAt > now

\* C9: request-reset always answers 200, the body for a username that exists and the
\* body for one that does not are the same, and a token row, expiring one hour after
\* it was created, is stored only for a user that exists.
C9_RequestResetHidesExistence ==
    /\ last.op = "requestReset" => last.status = 200
    /\ (resetBodies[TRUE] # NoBody /\ resetBodies[FALSE] # NoBody)
           => resetBodies[TRUE] = resetBodies[FALSE]
    /\ \A k \in DOMAIN resetTokens :
           /\ resetTokens[k].userId \in DOMAIN users
           /\ resetTokens[k].expiresAt = resetTokens[k].createdAt + RESET_TOKEN_HOURS

(***************************************************************************)
(* usePasswordResetToken, statement by statement.  A request in flight     *)
(* keeps the token in id, the user id of the row it read in ref and the    *)
(* index of the new password in arg.  A statement the store rejects ends   *)
(* the request with 500 and undoes nothing: the two writes are not in a    *)
(* transaction.                                                            *)
(***************************************************************************)
PasswordOf(n) == IF n = 1 THEN "secret1" ELSE "secret2"

PasswordIndexes == {1, 2}

StartConsumeReset(s, token, n) ==
    /\ reqs[s] = Idle
    /\ reqs' = [reqs EXCEPT ![s] = Req("consumeReset", "select", NoId, token, NoId, n)]
    /\ UNCHANGED <<users, sessions, nextSessionId, loginRole, resetTokens, now, last, consumed, pwVia, resetBodies>>
    /\ unchangedContent

\* getPasswordResetToken; "Invalid or expired token" when there is no row
ConsumeResetSelect(s) ==
    /\ reqs[s].op = "consumeReset" /\ reqs[s].pc = "select"
    /\ LET found == getPasswordResetToken(resetTokens, users, reqs[s].id, now) IN
       IF found = NoId
       THEN reqs' = [reqs EXCEPT ![s] = Idle]
       ELSE reqs' = [reqs EXCEPT ![s].pc = "password", ![s].ref = resetTokens[found].userId]
    /\ UNCHANGED <<users, sessions, nextSessionId, loginRole, resetTokens, now, last, consumed, pwVia, resetBodies>>
    /\ unchangedContent

\* UPDATE users SET password = hash WHERE id = tokenData.userId
ConsumeResetPassword(s) ==
    /\ reqs[s].op = "consumeReset" /\ reqs[s].pc = "password"
    /\ users' = SetPassword(users, reqs[s].ref, PasswordOf(reqs[s].arg))
    /\ pwVia' = (reqs[s].ref :> reqs[s].id) @@ pwVia
    /\ reqs' = [reqs EXCEPT ![s].pc = "mark"]
    /\ UNCHANGED <<sessions, nextSessionId, loginRole, resetTokens, now, last, consumed, resetBodies>>
    /\ unchangedContent

\* UPDATE password_reset_tokens SET used_at = now WHERE token = token; then 200
ConsumeResetMark(s) ==
    /\ reqs[s].op = "consumeReset" /\ reqs[s].pc = "mark"
    /\ resetTokens' = MarkTokenUsed(resetTokens, reqs[s].id, now)
    /\ consumed' = consumed \cup {reqs[s].id}
    /\ reqs' = [reqs EXCEPT ![s] = Idle]
    /\ UNCHANGED <<users, sessions, nextSessionId, loginRole, now, last, pwVia, resetBodies>>
    /\ unchangedContent

\* The store rejects the statement the request is about to run: the call throws
\* and the handler answers 500
ConsumeResetStoreFails(s) ==
    /\ reqs[s].op = "consumeReset" /\ reqs[s].pc \in {"password", "mark"}
    /\ reqs' = [reqs EXCEPT ![s] = Idle]
    /\ UNCHANGED <<users, sessions, nextSessionId, loginRole, resetTokens, now, last, consumed, pwVia, resetBodies>>
    /\ unchangedContent

NextResetSteps ==
    \/ \E username \in {"alice"} : RequestReset(username)
    \/ \E s \in Slots, token \in TokenInputs, n \in PasswordIndexes :
           StartConsumeReset(s, token, n)
    \/ \E s \in Slots : ConsumeResetSelect(s)
    \/ \E s \in Slots : ConsumeResetPassword(s)
    \/ \E s \in Slots : ConsumeResetMark(s)
    \/ \E s \in Slots : ConsumeResetStoreFails(s)
    \/ Tick

SpecResetSteps == InitReset /\ [][NextResetSteps]_vars

\* A reset through this token has started and not yet ended
ResetInProgress(token) ==
    \E s \in Slots : reqs[s].op = "consumeReset" /\ reqs[s].id = token

\* C8: the password write and the marking of the token happen together or not at
\* all: once no reset through a token is in progress, a password that was replaced
\* through that token goes with a usedAt that is set, also after a store failure
\* between the two writes.
C8_ResetIsAtomic ==
    \A u \in DOMAIN pwVia :
        ~ResetInProgress(pwVia[u]) => resetTokens[pwVia[u]].usedAt # NullTime

(***************************************************************************)
(* POST /api/auth/register                                                 *)
(***************************************************************************)
\* createSession: expiresAt = Date.now() + SESSION_DURATION_MS (7 days)
SESSION_DURATION_HOURS == 168

\* The lengths of the strings a request body is drawn from
StrLen(str) ==
    CASE str = "alice" -> 5
      [] str = "bob" -> 3
      [] str = "al" -> 2
      [] str = "secret1" -> 7
      [] str = "secret2" -> 7
      [] str = "short" -> 5
      [] OTHER -> 0

\* insertUserSchema: the insert schema of the users table without id and createdAt,
\* with username of 3 to 50 characters and password of at least 6; role stays in
\* the schema, optional (the column has a default), one of the enum's values
insertUserSchemaOk(username, pw, role) ==
    /\ StrLen(username) >= 3 /\ StrLen(username) <= 50
    /\ StrLen(pw) >= 6
    /\ role \in Roles \cup {""}

\* users.role: notNull().default("member")
DefaultRole == "member"

\* createUser: INSERT INTO users VALUES ({...insertUser, password: hash}); a column
\* the body leaves out takes its default
createUser(us, id, username, pw, role) ==
    us @@ (id :> [username |-> username, password |-> Hash(pw),
                  role |-> IF role = "" THEN DefaultRole ELSE role,
                  karma |-> DefaultKarma])

\* createSession: INSERT INTO sessions (userId, expiresAt)
createSession(ss, id, userId, t) ==
    ss @@ (id :> [userId |-> userId, createdAt |-> t,
                  expiresAt |-> t + SESSION_DURATION_HOURS])

RegisterUsernames == {"alice", "bob", "al"}
RegisterPasswords == {"secret1", "secret2", "short"}
RegisterRoles == Roles \cup {"", "root"}

InitEmpty ==
    /\ users = EmptyTable
    /\ questions = EmptyTable
    /\ answers = EmptyTable
    /\ InitRest

Register(username, pw, role) ==
    LET id == Cardinality(DOMAIN users) + 1
        sid == nextSessionId + 1
        reply(status, error) ==
            [NoLast EXCEPT !.op = "register", !.status = status, !.error = error,
                           !.role = role]
    IN
    /\ IF ~insertUserSchemaOk(username, pw, role)
       THEN /\ last' = reply(400, "ValidationError")
            /\ UNCHANGED <<users, sessions, nextSessionId, loginRole>>
       ELSE IF getUserByUsername(users, username) # NoId
       THEN /\ last' = reply(400, "DuplicateUsername")
            /\ UNCHANGED <<users, sessions, nextSessionId, loginRole>>
       ELSE /\ id <= MaxUsers
            /\ users' = createUser(users, id, username, pw, role)
            /\ sessions' = createSession(sessions, sid, id, now)
            /\ nextSessionId' = sid
            /\ loginRole' = loginRole @@ (sid :> users'[id].role)
            /\ last' = [reply(201, "") EXCEPT !.id = id, !.actor = id]
    /\ UNCHANGED <<resetTokens, now, reqs, consumed, pwVia, resetBodies>>
    /\ unchangedContent

NextRegister ==
    \E username \in RegisterUsernames, pw \in RegisterPasswords, role \in RegisterRoles :
        Register(username, pw, role)

SpecRegister == InitEmpty /\ [][NextRegister]_vars

\* C10: whatever body the register endpoint accepts, the user it has just created
\* has role member and karma 0.
C10_RegisterDefaults ==
    (last.op = "register" /\ last.status = 201) =>
        (users[last.id].role = "member" /\ users[last.id].karma = 0)

(***************************************************************************)
(* POST /api/auth/register, statement by statement: two registrations can  *)
(* both pass the username lookup before either inserts.                    *)
(***************************************************************************)
\* users.username: text("username").notNull().unique()
usernameFree(us, username) == \A i \in DOMAIN us : us[i].username # username

RegisterReply(status, error, id) ==
    [NoLast EXCEPT !.op = "register", !.status = status, !.error = error, !.id = id,
                   !.actor = id]

\* insertUserSchema.parse(req.body): a body that fails is answered 400 at once
StartRegister(s, username, pw) ==
    /\ reqs[s].op = "idle"
    /\ IF ~insertUserSchemaOk(username, pw, "")
       THEN /\ last' = RegisterReply(400, "ValidationError", NoId)
            /\ reqs' = reqs
       ELSE /\ reqs' = [reqs EXCEPT ![s] =
                          [Req("register", "select", NoId, NoId, NoId,
                               CHOOSE n \in PasswordIndexes : PasswordOf(n) = pw)
                             EXCEPT !.name = username]]
            /\ last' = last
    /\ UNCHANGED <<users, sessions, nextSessionId, loginRole, resetTokens, now, consumed, pwVia,
                   resetBodies>>
    /\ unchangedContent

\* existingUser = await storage.getUserByUsername(username); 400 if there is one
RegisterSelect(s) ==
    /\ reqs[s].op = "register" /\ reqs[s].pc = "select"
    /\ IF getUserByUsername(users, reqs[s].name) # NoId
       THEN /\ last' = RegisterReply(400, "DuplicateUsername", NoId)
            /\ reqs' = [reqs EXCEPT ![s] = Idle]
       ELSE /\ reqs' = [reqs EXCEPT ![s].pc = "insert"]
            /\ last' = last
    /\ UNCHANGED <<users, sessions, nextSessionId, loginRole, resetTokens, now, consumed, pwVia,
                   resetBodies>>
    /\ unchangedContent

\* storage.createUser: the INSERT; a unique violation is thrown, caught by the
\* handler's catch-all and answered 500 "Failed to register user"
RegisterInsert(s) ==
    /\ reqs[s].op = "register" /\ reqs[s].pc = "insert"
    /\ LET id == Cardinality(DOMAIN users) + 1 IN
       IF ~usernameFree(users, reqs[s].name)
       THEN /\ last' = RegisterReply(500, "InternalError", NoId)
            /\ reqs' = [reqs EXCEPT ![s] = Idle]
            /\ users' = users
       ELSE /\ id <= MaxUsers
            /\ users' = createUser(users, id, reqs[s].name, PasswordOf(reqs[s].arg), "")
            /\ reqs' = [reqs EXCEPT ![s].pc = "session", ![s].id = id]
            /\ last' = last
    /\ UNCHANGED <<sessions, nextSessionId, loginRole, resetTokens, now, consumed, pwVia, resetBodies>>
    /\ unchangedContent

\* storage.createSession(user.id), the cookie and 201
RegisterSession(s) ==
    /\ reqs[s].op = "register" /\ reqs[s].pc = "session"
    /\ sessions' = createSession(sessions, nextSessionId + 1, reqs[s].id, now)
    /\ nextSessionId' = nextSessionId + 1
    /\ loginRole' = loginRole @@ ((nextSessionId + 1) :> users[reqs[s].id].role)
    /\ last' = RegisterReply(201, "", reqs[s].id)
    /\ reqs' = [reqs EXCEPT ![s] = Idle]
    /\ UNCHANGED <<users, resetTokens, now, consumed, pwVia, resetBodies>>
    /\ unchangedContent

NextRegisterSteps ==
    \/ \E s \in Slots, username \in RegisterUsernames, pw \in Passwords :
           StartRegister(s, username, pw)
    \/ \E s \in Slots : RegisterSelect(s)
    \/ \E s \in Slots : RegisterInsert(s)
    \/ \E s \in Slots : RegisterSession(s)

SpecRegisterSteps == InitEmpty /\ [][NextRegisterSteps]_vars

UniqueUsernames(us) ==
    \A i, j \in DOMAIN us : us[i].username = us[j].username => i = j

\* C11: usernames stay unique, and a registration with a valid body that ends
\* without creating a user, alone or racing another one for the same username, is
\* rejected with 400 DuplicateUsername and has created no user and no session.
C11_DuplicateUsernameRejected ==
    [][/\ UniqueUsernames(users')
       /\ \A s \in Slots :
            (reqs[s].op = "register" /\ reqs'[s].op = "idle") =>
                \/ last'.status = 201 /\ last'.id \in DOMAIN users'
                \/ /\ last'.status = 400 /\ last'.error = "DuplicateUsername"
                   /\ users' = users /\ sessions' = sessions
      ]_vars

(***************************************************************************)
(* Sessions: login, the session lookup of authMiddleware, logout, the      *)
(* sweep of expired rows.  Requests arrive at the times of SessionTimes.   *)
(***************************************************************************)
MaxSessions == 2

\* The times requests arrive at: the first hours, and the hours around the end of
\* the life of a session created in one of them
SessionTimes ==
    (0 .. MaxTime) \cup
    {SESSION_DURATION_HOURS + d - 1 : d \in 0 .. (MaxTime + 1)}

\* verifyPassword: bcrypt.compare(password, user.password)
verifyPassword(us, userId, pw) == us[userId].password = Hash(pw)

\* A lookup that forgets the expiry test
getSessionIgnoringExpiry(ss, us, id, t) ==
    IF id \in DOMAIN ss /\ ss[id].userId \in DOMAIN us THEN ss[id].userId ELSE NoId

\* getSession: SELECT ... FROM sessions INNER JOIN users
\* WHERE sessions.id = id AND sessions.expiresAt > now; the user's id, NoId if no row
getSession(ss, us, id, t) ==
    IF id \in DOMAIN ss /\ ss[id].userId \in DOMAIN us /\ ss[id].expiresAt > t
    THEN ss[id].userId
    ELSE NoId

\* A logout that ends every session of the user
deleteSessionOfUser(ss, id) ==
    IF id \in DOMAIN ss
    THEN [i \in {j \in DOMAIN ss : ss[j].userId # ss[id].userId} |-> ss[i]]
    ELSE ss

\* deleteSession: DELETE FROM sessions WHERE id = id
deleteSession(ss, id) == [i \in DOMAIN ss \ {id} |-> ss[i]]

\* cleanExpiredSessions: DELETE FROM sessions WHERE expiresAt < now()
cleanExpiredSessions(ss, t) == [i \in {j \in DOMAIN ss : ~(ss[j].expiresAt < t)} |-> ss[i]]

SessionIdInputs == 1 .. (MaxSessions + 1)

unchangedBySessions ==
    /\ UNCHANGED <<users, resetTokens, reqs, consumed, pwVia, resetBodies>>
    /\ unchangedContent

\* POST /api/auth/login
Login(username, pw) ==
    LET user == getUserByUsername(users, username) IN
    /\ IF user = NoId \/ ~verifyPassword(users, user, pw)
       THEN /\ last' = Resp("login", NoId, NoId, 401)
            /\ UNCHANGED <<sessions, nextSessionId, loginRole>>
       ELSE /\ nextSessionId < MaxSessions
            /\ sessions' = createSession(sessions, nextSessionId + 1, user, now)
            /\ nextSessionId' = nextSessionId + 1
            /\ loginRole' = loginRole @@ ((nextSessionId + 1) :> users[user].role)
            /\ last' = Resp("login", user, nextSessionId + 1, 200)
    /\ now' = now
    /\ unchangedBySessions

\* GET /api/auth/me behind authMiddleware, with the cookie session_id = sid
Me(sid) ==
    LET user == getSession(sessions, users, sid, now) IN
    /\ last' = Resp("me", user, sid, IF user = NoId THEN 401 ELSE 200)
    /\ UNCHANGED <<sessions, nextSessionId, loginRole, now>>
    /\ unchangedBySessions

\* POST /api/auth/logout behind authMiddleware: req.sessionId is set only when the
\* cookie's session resolved
Logout(sid) ==
    LET user == getSession(sessions, users, sid, now) IN
    /\ sessions' = IF user # NoId THEN deleteSession(sessions, sid) ELSE sessions
    /\ last' = Resp("logout", user, sid, 200)
    /\ UNCHANGED <<nextSessionId, loginRole, now>>
    /\ unchangedBySessions

\* storage.cleanExpiredSessions()
CleanExpiredSessions ==
    /\ sessions' = cleanExpiredSessions(sessions, now)
    /\ last' = [NoLast EXCEPT !.op = "sweep"]
    /\ UNCHANGED <<nextSessionId, loginRole, now>>
    /\ unchangedBySessions

\* Time passes until the next arrival
SessionTick(t) ==
    /\ t > now
    /\ now' = t
    /\ last' = [NoLast EXCEPT !.op = "tick"]
    /\ UNCHANGED <<sessions, nextSessionId, loginRole>>
    /\ unchangedBySessions

NextSession ==
    \/ \E username \in Usernames, pw \in Passwords : Login(username, pw)
    \/ \E sid \in SessionIdInputs : Me(sid)
    \/ \E sid \in SessionIdInputs : Logout(sid)
    \/ CleanExpiredSessions
    \/ \E t \in SessionTimes : SessionTick(t)

SpecSession == InitReset /\ [][NextSession]_vars

\* C12: a session created at t resolves to its user at t' exactly when its row is
\* still stored and t' < t + 7 days; a stored row is never rewritten (its expiresAt
\* is the one of its creation, createdAt + 7 days), so an expired row that was not
\* swept authenticates nothing.
C12_SessionLifetime ==
    [][/\ last'.op = "me" =>
            /\ last'.status \in {200, 401}
            /\ last'.status = 200 <=>
                   /\ last'.id \in DOMAIN sessions
                   /\ now < sessions[last'.id].createdAt + 7 * 24
            /\ last'.status = 200 => last'.actor = sessions[last'.id].userId
       /\ \A sid \in DOMAIN sessions' :
            /\ sessions'[sid].expiresAt = sessions'[sid].createdAt + 7 * 24
            /\ sid \in DOMAIN sessions => sessions'[sid] = sessions[sid]
      ]_vars

\* C12 witness: a request presented a stored session at its expiry time and was
\* not authenticated.
C12_Witness ==
    /\ last.op = "me" /\ last.status = 401
    /\ last.id \in DOMAIN sessions
    /\ now = sessions[last.id].expiresAt

\* Whether session sid resolves in the state with sessions table ss at time t
Resolves(ss, us, sid, t) == getSession(ss, us, sid, t) # NoId

\* C13 as stated: logout always succeeds; after it the presented session's row is
\* gone and the session never resolves again; every other row is left as it was; a
\* logout of an id that is not stored changes nothing.
C13_LogoutDeletesPresented ==
    [][/\ last'.op = "logout" =>
            /\ last'.status = 200
            /\ last'.id \notin DOMAIN sessions'
            /\ \A sid \in DOMAIN sessions \ {last'.id} :
                   sid \in DOMAIN sessions' /\ sessions'[sid] = sessions[sid]
            /\ last'.id \notin DOMAIN sessions => sessions' = sessions
       /\ \A sid \in 1 .. nextSessionId :
            ~Resolves(sessions, users, sid, now) => ~Resolves(sessions', users', sid, now')
      ]_vars

\* C13 as amended: logout always succeeds; it deletes the presented session's row
\* when that session still resolves, and changes nothing when the id is unknown,
\* already deleted, or expired (the expired row stays until swept); either way the
\* session does not resolve afterwards, and a session that does not resolve never
\* resolves again; every other row is left as it was.
C13_LogoutEndsSession ==
    [][/\ last'.op = "logout" =>
            /\ last'.status = 200
            /\ ~Resolves(sessions', users', last'.id, now')
            /\ Resolves(sessions, users, last'.id, now) => last'.id \notin DOMAIN sessions'
            /\ ~Resolves(sessions, users, last'.id, now) => sessions' = sessions
            /\ \A sid \in DOMAIN sessions \ {last'.id} :
                   sid \in DOMAIN sessions' /\ sessions'[sid] = sessions[sid]
       /\ \A sid \in 1 .. nextSessionId :
            ~Resolves(sessions, users, sid, now) => ~Resolves(sessions', users', sid, now')
      ]_vars

\* C13 witness: a logout deleted a resolving session while another session of the
\* same user is still stored and resolves.
C13_Witness ==
    /\ last.op = "logout" /\ last.actor # NoId
    /\ last.id \notin DOMAIN sessions
    /\ \E sid \in DOMAIN sessions :
           sid # last.id /\ getSession(sessions, users, sid, now) = last.actor

(***************************************************************************)
(* The forum with full question and answer rows: votes, views, the pinned  *)
(* flag, the editable text.  The categories table is never written here.   *)
(***************************************************************************)
MaxVotes == 1

categories == (1 :> [slug |-> "ubuntu"]) @@ (2 :> [slug |-> "arch"])

\* A questions row as the INSERT leaves it when only these columns are given: the
\* counters and the flag take the defaults of the table
QuestionRow(userId, title, content, categoryId, createdAt) ==
    [userId |-> userId, title |-> title, content |-> content, categoryId |-> categoryId,
     votes |-> 0, viewCount |-> 0, answerCount |-> 0, isPinned |-> FALSE,
     createdAt |-> createdAt]

\* An answers row as the INSERT leaves it
AnswerRow(questionId, userId, content) ==
    [questionId |-> questionId, userId |-> userId, content |-> content, votes |-> 0,
     isAccepted |-> FALSE]

\* Question 1 by alice with an answer by bob and one with a null user id; question 2
\* with a null user id and without answers.
InitForum ==
    /\ users = (1 :> UserRow("alice", "secret1", "member"))
            @@ (2 :> UserRow("bob", "secret1", "member"))
            @@ (3 :> UserRow("carol", "secret1", "moderator"))
            @@ (4 :> UserRow("dave", "secret1", "admin"))
            @@ (5 :> UserRow("olga", "secret1", "owner"))
    /\ questions = (1 :> [QuestionRow(1, "t1", "c1", 1, 0) EXCEPT !.answerCount = 2])
                @@ (2 :> QuestionRow(NoId, "t2", "c2", 2, 0))
    /\ answers = (1 :> AnswerRow(1, 2, "a1")) @@ (2 :> AnswerRow(1, NoId, "a2"))
    /\ InitRest

\* getQuestionById: the questions row joined with its category, NoId when no row
getQuestionById(qs, id) ==
    IF id \in DOMAIN qs /\ qs[id].categoryId \in DOMAIN categories THEN id ELSE NoId

\* An UPDATE that falls on every row when no row has the id
updateQuestionVotesAnyRow(qs, id, direction) ==
    [i \in DOMAIN qs |->
        IF i = id \/ id \notin DOMAIN qs
        THEN [qs[i] EXCEPT !.votes = @ + (IF direction = "up" THEN 1 ELSE 0 - 1)]
        ELSE qs[i]]

\* updateQuestionVotes: UPDATE questions SET votes = votes + increment WHERE id = id
updateQuestionVotes(qs, id, direction) ==
    [i \in DOMAIN qs |->
        IF i = id
        THEN [qs[i] EXCEPT !.votes = @ + (IF direction = "up" THEN 1 ELSE 0 - 1)]
        ELSE qs[i]]

\* updateAnswerVotes: UPDATE answers SET votes = votes + increment WHERE id = id
updateAnswerVotes(ans, id, direction) ==
    [i \in DOMAIN ans |->
        IF i = id
        THEN [ans[i] EXCEPT !.votes = @ + (IF direction = "up" THEN 1 ELSE 0 - 1)]
        ELSE ans[i]]

Directions == {"up", "down", "sideways"}
VoteQuestionIds == {NoId, 1, 2, 3}
Voters == {NoId, 1, 2}
VoteAnswerIds == {1, 2, 3}

\* The counters stay within the bounds of the model
votesInBounds(rows) == \A i \in DOMAIN rows : rows[i].votes \in (0 - MaxVotes) .. MaxVotes
karmaInBounds(us) == \A u \in DOMAIN us : us[u].karma <= MaxKarma

VoteReply(op, actor, id, status, direction) ==
    [Resp(op, actor, id, status) EXCEPT !.dir = direction]

\* POST /api/questions/:id/vote {direction}
VoteQuestion(actor, id, direction) ==
    /\ unchangedAuth
    /\ UNCHANGED <<answers, nextAnswerId>>
    /\ IF direction \notin {"up", "down"}
       THEN /\ last' = VoteReply("voteQuestion", actor, id, 400, direction)
            /\ UNCHANGED <<users, questions>>
       ELSE LET question == getQuestionById(questions, id)
                karmaChange == IF direction = "up" THEN QUESTION_UPVOTED
                               ELSE QUESTION_DOWNVOTED
            IN
            /\ questions' = updateQuestionVotes(questions, id, direction)
            /\ users' = IF question # NoId /\ questions[question].userId # NoId
                        THEN addKarma(users, questions[question].userId, karmaChange)
                        ELSE users
            /\ votesInBounds(questions') /\ karmaInBounds(users')
            /\ last' = VoteReply("voteQuestion", actor, id, 200, direction)

\* POST /api/answers/:id/vote {direction, questionId}; a body without questionId
\* looks the answer up among the answers of question ""
VoteAnswer(actor, id, questionId, direction) ==
    /\ unchangedAuth
    /\ UNCHANGED <<questions, nextAnswerId>>
    /\ IF direction \notin {"up", "down"}
       THEN /\ last' = VoteReply("voteAnswer", actor, id, 400, direction)
            /\ UNCHANGED <<users, answers>>
       ELSE LET found == id \in getAnswersByQuestionId(answers, questionId)
                karmaChange == IF direction = "up" THEN ANSWER_UPVOTED
                               ELSE ANSWER_DOWNVOTED
            IN
            /\ answers' = updateAnswerVotes(answers, id, direction)
            /\ users' = IF found /\ answers[id].userId # NoId
                        THEN addKarma(users, answers[id].userId, karmaChange)
                        ELSE users
            /\ votesInBounds(answers') /\ karmaInBounds(users')
            /\ last' = VoteReply("voteAnswer", actor, id, 200, direction)

NextVotes ==
    \/ \E actor \in Voters, id \in QuestionIdInputs, direction \in Directions :
           VoteQuestion(actor, id, direction)
    \/ \E actor \in Voters, id \in VoteAnswerIds, questionId \in VoteQuestionIds,
          direction \in Directions :
           VoteAnswer(actor, id, questionId, direction)

SpecVotes == InitForum /\ [][NextVotes]_vars

\* The reward of a vote, by the kind of its target and its direction
VoteReward(op, direction) ==
    IF op = "voteQuestion"
    THEN (IF direction = "up" THEN QUESTION_UPVOTED ELSE QUESTION_DOWNVOTED)
    ELSE (IF direction = "up" THEN ANSWER_UPVOTED ELSE ANSWER_DOWNVOTED)

\* The user id on the row a vote was cast on, NoId when there is no such row
VoteTargetAuthor(op, id) ==
    IF op = "voteQuestion"
    THEN (IF id \in DOMAIN questions THEN questions[id].userId ELSE NoId)
    ELSE (IF id \in DOMAIN answers THEN answers[id].userId ELSE NoId)

\* C14: a vote on a question or an answer whose author is a registered user changes
\* that author's karma to max(0, karma + reward of the kind and direction), and
\* changes the karma of no other user.
C14_VoteRewardsAuthor ==
    [][(last'.op \in {"voteQuestion", "voteAnswer"} /\ last'.status = 200) =>
         LET author == VoteTargetAuthor(last'.op, last'.id)
             sum == users[author].karma + VoteReward(last'.op, last'.dir)
         IN author \in DOMAIN users =>
                /\ users'[author].karma = IF sum < 0 THEN 0 ELSE sum
                /\ \A u \in DOMAIN users \ {author} : users'[u].karma = users[u].karma
      ]_vars

(***************************************************************************)
(* DELETE /api/questions/:id, statement by statement, interleaved with the *)
(* statements of createAnswer.                                             *)
(***************************************************************************)
\* deleteQuestion, first statement: DELETE FROM answers WHERE question_id = id
DeleteAnswersOf(ans, id) == [a \in {b \in DOMAIN ans : ans[b].questionId # id} |-> ans[a]]

\* A questions table no answers row refers to through a foreign key
deleteQuestionOkUnchecked(ans, id) == TRUE

\* answers.question_id references questions.id (no ON DELETE action): the store
\* rejects the DELETE of a question row that an answers row still refers to
deleteQuestionOk(ans, id) == getAnswersByQuestionId(ans, id) = {}

\* deleteQuestion, second statement: DELETE FROM questions WHERE id = id
DeleteQuestionRow(qs, id) == [q \in DOMAIN qs \ {id} |-> qs[q]]

\* DELETE /api/questions/:id passes requireRole and calls storage.deleteQuestion
StartDeleteQuestion(s, actor, id) ==
    /\ reqs[s] = Idle
    /\ requireRole(users, actor, {"owner", "admin", "moderator"}) = 0
    /\ reqs' = [reqs EXCEPT ![s] = Req("deleteQuestion", "answers", actor, id, NoId, 0)]
    /\ UNCHANGED <<users, questions, answers, nextAnswerId, last>>
    /\ unchangedReset

\* the first statement; arg keeps the number of rows it removed
DeleteQuestionAnswers(s) ==
    /\ reqs[s].op = "deleteQuestion" /\ reqs[s].pc = "answers"
    /\ answers' = DeleteAnswersOf(answers, reqs[s].id)
    /\ reqs' = [reqs EXCEPT ![s].pc = "question",
                            ![s].arg = Cardinality(getAnswersByQuestionId(answers,
                                                                          reqs[s].id))]
    /\ UNCHANGED <<users, questions, nextAnswerId, last>>
    /\ unchangedReset

\* the second statement and the response: 200, or 500 when the store rejected it
DeleteQuestionQuestion(s) ==
    /\ reqs[s].op = "deleteQuestion" /\ reqs[s].pc = "question"
    /\ IF deleteQuestionOk(answers, reqs[s].id)
       THEN /\ questions' = DeleteQuestionRow(questions, reqs[s].id)
            /\ last' = [Resp("deleteQuestion", reqs[s].actor, reqs[s].id, 200)
                          EXCEPT !.arg = reqs[s].arg]
       ELSE /\ questions' = questions
            /\ last' = [Resp("deleteQuestion", reqs[s].actor, reqs[s].id, 500)
                          EXCEPT !.arg = reqs[s].arg]
    /\ reqs' = [reqs EXCEPT ![s] = Idle]
    /\ UNCHANGED <<users, answers, nextAnswerId>>
    /\ unchangedReset

NextDeleteQuestion ==
    \/ \E s \in Slots, actor \in Posters, q \in QuestionIdInputs :
           StartCreateAnswer(s, actor, q)
    \/ \E s \in Slots : CreateAnswerInsert(s)
    \/ \E s \in Slots : CreateAnswerCount(s)
    \/ \E s \in Slots : CreateAnswerKarma(s)
    \/ \E s \in Slots, actor \in Actors, id \in QuestionIdInputs :
           StartDeleteQuestion(s, actor, id)
    \/ \E s \in Slots : DeleteQuestionAnswers(s)
    \/ \E s \in Slots : DeleteQuestionQuestion(s)

SpecDeleteQuestion == InitContent /\ [][NextDeleteQuestion]_vars

\* C16: no stored answer ever refers to a question that is not stored; a question
\* row is removed only when no answer of it is stored; and when deleteQuestion has
\* completed, neither the question nor an answer of it is stored.
C16_DeleteQuestionCascade ==
    [][/\ \A a \in DOMAIN answers' : answers'[a].questionId \in DOMAIN questions'
       /\ \A q \in DOMAIN questions \ DOMAIN questions' :
              getAnswersByQuestionId(answers, q) = {}
       /\ \A s \in Slots :
            (reqs[s].op = "deleteQuestion" /\ reqs'[s].op = "idle"
                 /\ last'.status = 200) =>
                /\ reqs[s].id \notin DOMAIN questions'
                /\ getAnswersByQuestionId(answers', reqs[s].id) = {}
      ]_vars

\* C16 witness: a deleteQuestion that removed at least one answer has completed and
\* the question is gone.
C16_Witness ==
    /\ last.op = "deleteQuestion" /\ last.status = 200 /\ last.arg >= 1
    /\ last.id \notin DOMAIN questions

(***************************************************************************)
(* Moderation: edit, delete and pin of questions, edit and delete of       *)
(* answers, each run alone from request to response.                       *)
(***************************************************************************)
Moderators == {"owner", "admin", "moderator"}

\* A gate that only asks for a signed-in user
requireRoleAnyUser(us, actor, roles) == requireAuth(us, actor)

\* The gate in front of the moderation routes
moderationGate(us, actor, roles) == requireRole(us, actor, roles)

\* updateQuestion: UPDATE questions SET ...data WHERE id = id; a field that is
\* undefined in data is left out of the SET ("" and "keep" stand for undefined)
updateQuestion(qs, id, title, content, pin) ==
    [q \in DOMAIN qs |->
        IF q = id
        THEN [qs[q] EXCEPT !.title = IF title = "" THEN @ ELSE title,
                           !.content = IF content = "" THEN @ ELSE content,
                           !.isPinned = IF pin = "keep" THEN @ ELSE pin = "pin"]
        ELSE qs[q]]

\* updateAnswer: UPDATE answers SET content = content WHERE id = id
updateAnswer(ans, id, content) ==
    [a \in DOMAIN ans |-> IF a = id THEN [ans[a] EXCEPT !.content = content] ELSE ans[a]]

\* deleteQuestion as one call: the answers of the question, then the question
deleteQuestionAnswers(ans, id) == DeleteAnswersOf(ans, id)
deleteQuestionQuestions(qs, id) == DeleteQuestionRow(qs, id)

ModActors == {NoId, 1, 3, 4, 5}
ModQuestionIds == {1, 3}
ModAnswerIds == {1, 3}
TitleInputs == {"", "t3"}
ContentInputs == {"", "c3"}
PinInputs == {"keep", "pin", "unpin"}

\* PATCH /api/questions/:id {title, content, isPinned}; an UPDATE with nothing to
\* set is either sent as it is or refused by the query builder (500)
EditQuestion(actor, id, title, content, pin) ==
    /\ unchangedAuth
    /\ UNCHANGED <<users, answers, nextAnswerId>>
    /\ LET gate == moderationGate(users, actor, Moderators) IN
       IF gate # 0
       THEN /\ last' = Resp("editQuestion", actor, id, gate)
            /\ questions' = questions
       ELSE IF title = "" /\ content = "" /\ pin = "keep"
       THEN /\ \E status \in {200, 500} : last' = Resp("editQuestion", actor, id, status)
            /\ questions' = questions
       ELSE /\ questions' = updateQuestion(questions, id, title, content, pin)
            /\ last' = Resp("editQuestion", actor, id, 200)

\* DELETE /api/questions/:id
DeleteQuestion(actor, id) ==
    /\ unchangedAuth
    /\ UNCHANGED <<users, nextAnswerId>>
    /\ LET gate == moderationGate(users, actor, Moderators) IN
       IF gate # 0
       THEN /\ last' = Resp("deleteQuestion", actor, id, gate)
            /\ UNCHANGED <<questions, answers>>
       ELSE /\ answers' = deleteQuestionAnswers(answers, id)
            /\ questions' = deleteQuestionQuestions(questions, id)
            /\ last' = Resp("deleteQuestion", actor, id, 200)

\* POST /api/questions/:id/pin
PinQuestion(actor, id) ==
    /\ unchangedAuth
    /\ UNCHANGED <<users, answers, nextAnswerId>>
    /\ LET gate == moderationGate(users, actor, Moderators) IN
       IF gate # 0
       THEN /\ last' = Resp("pinQuestion", actor, id, gate)
            /\ questions' = questions
       ELSE IF getQuestionById(questions, id) = NoId
       THEN /\ last' = Resp("pinQuestion", actor, id, 404)
            /\ questions' = questions
       ELSE /\ questions' = updateQuestion(questions, id, "", "",
                                           IF questions[id].isPinned THEN "unpin"
                                           ELSE "pin")
            /\ last' = Resp("pinQuestion", actor, id, 200)

\* PATCH /api/answers/:id {content}
EditAnswer(actor, id, content) ==
    /\ unchangedAuth
    /\ UNCHANGED <<users, questions, nextAnswerId>>
    /\ LET gate == moderationGate(users, actor, Moderators) IN
       IF gate # 0
       THEN /\ last' = Resp("editAnswer", actor, id, gate)
            /\ answers' = answers
       ELSE IF content = ""
       THEN /\ \E status \in {200, 500} : last' = Resp("editAnswer", actor, id, status)
            /\ answers' = answers
       ELSE /\ answers' = updateAnswer(answers, id, content)
            /\ last' = Resp("editAnswer", actor, id, 200)

\* DELETE /api/answers/:id, behind the same gate
ModerateDeleteAnswer(actor, id) ==
    /\ unchangedAuth
    /\ UNCHANGED <<users, nextAnswerId>>
    /\ LET gate == moderationGate(users, actor, Moderators) IN
       IF gate # 0
       THEN /\ last' = Resp("deleteAnswer", actor, id, gate)
            /\ UNCHANGED <<questions, answers>>
       ELSE /\ answers' = deleteAnswerAnswers(answers, id)
            /\ questions' = deleteAnswerQuestions(questions, answers, id)
            /\ last' = Resp("deleteAnswer", actor, id, 200)

NextModerate ==
    \/ \E actor \in ModActors, id \in ModQuestionIds, title \in TitleInputs,
          content \in ContentInputs, pin \in PinInputs :
           EditQuestion(actor, id, title, content, pin)
    \/ \E actor \in ModActors, id \in ModQuestionIds : DeleteQuestion(actor, id)
    \/ \E actor \in ModActors, id \in ModQuestionIds : PinQuestion(actor, id)
    \/ \E actor \in ModActors, id \in ModAnswerIds, content \in ContentInputs :
           EditAnswer(actor, id, content)
    \/ \E actor \in ModActors, id \in ModAnswerIds : ModerateDeleteAnswer(actor, id)

SpecModerate == InitForum /\ [][NextModerate]_vars

ModerationOps == {"editQuestion", "deleteQuestion", "pinQuestion", "editAnswer",
                  "deleteAnswer"}

\* C17: an edit, delete or pin request succeeds only for a moderator, admin or
\* owner; without a session it is answered 401 and from a member 403, and then no
\* question, answer or user row has changed.
C17_ModerationGate ==
    [][last'.op \in ModerationOps =>
         LET actor == last'.actor
             allowed == actor # NoId /\ users[actor].role \in {"moderator", "admin", "owner"}
         IN /\ last'.status = 200 => allowed
            /\ actor = NoId => last'.status = 401
            /\ (actor # NoId /\ users[actor].role = "member") => last'.status = 403
            /\ ~allowed => /\ questions' = questions
                           /\ answers' = answers
                           /\ users' = users
      ]_vars

\* C17 witness: a member asked to delete a stored question and was refused with 403.
C17_Witness ==
    /\ last.op = "deleteQuestion" /\ last.status = 403
    /\ last.actor # NoId /\ users[last.actor].role = "member"
    /\ last.id \in DOMAIN questions

(***************************************************************************)
(* Questions: create, read, list; each run alone from request to response. *)
(***************************************************************************)
MaxQuestions == 3
MaxViews == 1

\* A key the request body does not have
Undefined == "undefined"

\* A parse that lets every key of the body through
insertQuestionSchemaKeepingAll(body) == body

\* insertQuestionSchema.parse: the insert schema of the questions table without id,
\* votes, viewCount, answerCount, isPinned, createdAt and userId; keys outside the
\* schema are stripped, so the parsed data carries title, content and categoryId only
insertQuestionSchema(body) ==
    [NoQuestion EXCEPT !.title = body.title, !.content = body.content,
                       !.categoryId = body.categoryId]

\* title, content and categoryId are required strings
insertQuestionSchemaOk(body) ==
    /\ body.title # Undefined
    /\ body.content # Undefined
    /\ body.categoryId # NoId

\* questions.category_id references categories.id
createQuestionOk(data) == data.categoryId \in DOMAIN categories

\* createQuestion: INSERT INTO questions VALUES ({...data, userId}) RETURNING; the
\* columns data does not carry take their defaults
createQuestion(qs, id, data, userId, t) ==
    qs @@ (id :> [data EXCEPT !.userId = userId, !.createdAt = t])

\* incrementQuestionViews: UPDATE questions SET view_count = view_count + 1
incrementQuestionViews(qs, id) ==
    [q \in DOMAIN qs |->
        IF q = id THEN [qs[q] EXCEPT !.viewCount = @ + 1] ELSE qs[q]]

\* Request bodies: with or without a title, with a category that exists or not,
\* and with or without values for the counters and the flag
QuestionBodies ==
    {[NoQuestion EXCEPT !.title = title, !.content = "c3", !.categoryId = categoryId,
                        !.userId = extra, !.votes = extra, !.viewCount = extra,
                        !.answerCount = extra, !.isPinned = (extra = 1)] :
        title \in {"t3", Undefined}, categoryId \in {1, 2, 3}, extra \in {0, 1}}

Askers == {NoId, 1}

\* POST /api/questions
CreateQuestion(actor, body) ==
    LET id == Cardinality(DOMAIN questions) + 1
        data == insertQuestionSchema(body)
        reply(status, qid) ==
            [Resp("createQuestion", actor, qid, status) EXCEPT !.body = body]
    IN
    /\ unchangedAuth
    /\ UNCHANGED <<answers, nextAnswerId>>
    /\ IF requireAuth(users, actor) # 0
       THEN /\ last' = reply(401, NoId)
            /\ UNCHANGED <<users, questions>>
       ELSE IF ~insertQuestionSchemaOk(body)
       THEN /\ last' = reply(400, NoId)
            /\ UNCHANGED <<users, questions>>
       ELSE IF ~createQuestionOk(data)
       THEN /\ last' = reply(500, NoId)
            /\ UNCHANGED <<users, questions>>
       ELSE /\ id <= MaxQuestions
            /\ questions' = createQuestion(questions, id, data, actor, now)
            /\ users' = addKarma(users, actor, ASK_QUESTION)
            /\ karmaInBounds(users')
            /\ last' = reply(201, id)

\* GET /api/questions/:id: the row as read, then the view counter; arg is 1 when the
\* request comes right after the create of that question from a body that carried
\* values for the counters
GetQuestion(actor, id) ==
    /\ unchangedAuth
    /\ UNCHANGED <<users, answers, nextAnswerId>>
    /\ IF getQuestionById(questions, id) = NoId
       THEN /\ last' = Resp("getQuestion", actor, id, 404)
            /\ questions' = questions
       ELSE /\ questions[id].viewCount < MaxViews
            /\ questions' = incrementQuestionViews(questions, id)
            /\ last' = [Resp("getQuestion", actor, id, 200) EXCEPT
                          !.body = questions[id],
                          !.arg = IF /\ last.op = "createQuestion" /\ last.id = id
                                     /\ last.body.votes = 1
                                  THEN 1 ELSE 0]

\* getQuestions: the WHERE of the query that is sent.  where() stores the condition
\* it is given in the query's configuration, so the condition of the "unanswered"
\* branch takes the place of the category condition set before it
getQuestionsWhere(qs, q, categorySlug, sort) ==
    IF sort = "unanswered" THEN qs[q].answerCount = 0
    ELSE IF categorySlug # "" THEN categories[qs[q].categoryId].slug = categorySlug
    ELSE TRUE

\* getQuestions: the rows of questions INNER JOIN categories that pass the WHERE
getQuestionsRows(qs, categorySlug, sort) ==
    {q \in DOMAIN qs : /\ qs[q].categoryId \in DOMAIN categories
                       /\ getQuestionsWhere(qs, q, categorySlug, sort)}

\* getQuestions: ORDER BY is_pinned DESC, then votes, answer_count or created_at DESC
\* by the sort; TRUE when row a must come before row b
getQuestionsBefore(qs, a, b, sort) ==
    LET key(q) == CASE sort = "top" -> qs[q].votes
                    [] sort = "active" -> qs[q].answerCount
                    [] OTHER -> qs[q].createdAt
    IN \/ qs[a].isPinned /\ ~qs[b].isPinned
       \/ qs[a].isPinned = qs[b].isPinned /\ key(a) > key(b)

\* getQuestions: the results the store can return: all the rows, or with LIMIT the
\* first rows of an order that ORDER BY allows (0 stands for no limit)
getQuestions(qs, categorySlug, sort, limit) ==
    LET rows == getQuestionsRows(qs, categorySlug, sort) IN
    IF limit = 0 THEN {rows}
    ELSE {S \in SUBSET rows :
            /\ Cardinality(S) = (IF Cardinality(rows) < limit THEN Cardinality(rows)
                                 ELSE limit)
            /\ \A a \in rows \ S, b \in S : ~getQuestionsBefore(qs, a, b, sort)}

CategoryInputs == {"", "ubuntu", "arch", "debian"}
SortInputs == {"", "top", "active", "unanswered"}
LimitInputs == {0, 1}

\* GET /api/questions?category=&sort=&limit=
ListQuestions(categorySlug, sort, limit) ==
    /\ unchangedAuth
    /\ UNCHANGED <<users, questions, answers, nextAnswerId>>
    /\ \E result \in getQuestions(questions, categorySlug, sort, limit) :
           last' = [Resp("listQuestions", NoId, NoId, 200) EXCEPT
                      !.role = categorySlug, !.dir = sort, !.arg = limit,
                      !.list = result]

NextQuestions ==
    \/ \E actor \in Askers, body \in QuestionBodies : CreateQuestion(actor, body)
    \/ \E actor \in Askers, id \in 1 .. (MaxQuestions + 1) : GetQuestion(actor, id)
    \/ \E categorySlug \in CategoryInputs, sort \in SortInputs, limit \in LimitInputs :
           ListQuestions(categorySlug, sort, limit)

SpecQuestions == InitForum /\ [][NextQuestions]_vars

\* C18: a created question is stored with the title, content and category of the
\* request body and with votes, viewCount and answerCount 0 and isPinned false,
\* whatever else the body carried; a read of it right after the create returns
\* those values.
C18_CreateQuestionRoundTrip ==
    [][/\ (last'.op = "createQuestion" /\ last'.status = 201) =>
            LET row == questions'[last'.id] IN
            /\ row.title = last'.body.title
            /\ row.content = last'.body.content
            /\ row.categoryId = last'.body.categoryId
            /\ row.votes = 0 /\ row.viewCount = 0 /\ row.answerCount = 0
            /\ row.isPinned = FALSE
       /\ (last.op = "createQuestion" /\ last.status = 201
             /\ last'.op = "getQuestion" /\ last'.id = last.id) =>
            /\ last'.status = 200
            /\ last'.body.title = last.body.title
            /\ last'.body.content = last.body.content
            /\ last'.body.categoryId = last.body.categoryId
            /\ last'.body.votes = 0 /\ last'.body.viewCount = 0
            /\ last'.body.answerCount = 0 /\ last'.body.isPinned = FALSE
      ]_vars

\* C18 witness: a question whose request body carried values for the counters and
\* the flag was created and then read.
C18_Witness ==
    /\ last.op = "getQuestion" /\ last.status = 200 /\ last.arg = 1
    /\ last.body.votes = 0 /\ last.body.isPinned = FALSE

\* C19: a listing with sort = unanswered returns exactly the questions with
\* answerCount 0 that are in the category of the filter, when one is given.
C19_UnansweredListing ==
    (last.op = "listQuestions" /\ last.dir = "unanswered" /\ last.arg = 0) =>
        last.list = {q \in DOMAIN questions :
                        /\ questions[q].answerCount = 0
                        /\ last.role # "" =>
                               /\ questions[q].categoryId \in DOMAIN categories
                               /\ categories[questions[q].categoryId].slug = last.role}

(***************************************************************************)
(* POST /api/answers/:id/accept, statement by statement, for requests that *)
(* name an answer together with its own question.                          *)
(***************************************************************************)
\* The handler up to storage.acceptAnswer: the gate, then the lookup of the answer
\* among the answers of the question; arg keeps the user id on the answer found
StartAcceptAnswer(s, actor, id, questionId) ==
    /\ reqs[s] = Idle
    /\ acceptGate(users, questions, actor, questionId) = 0
    /\ id \in getAnswersByQuestionId(answers, questionId)
    /\ reqs' = [reqs EXCEPT ![s] = Req("acceptAnswer", "clear", actor, id, questionId,
                                       answers[id].userId)]
    /\ UNCHANGED <<users, questions, answers, nextAnswerId, last>>
    /\ unchangedReset

\* acceptAnswer: UPDATE answers SET is_accepted = false WHERE question_id = questionId;
\* seen keeps the number of rows that were accepted before it
AcceptAnswerClear(s) ==
    /\ reqs[s].op = "acceptAnswer" /\ reqs[s].pc = "clear"
    /\ answers' = ClearAccepted(answers, reqs[s].ref)
    /\ reqs' = [reqs EXCEPT ![s].pc = "set",
                            ![s].seen = Cardinality(AcceptedOf(answers, reqs[s].ref))]
    /\ UNCHANGED <<users, questions, nextAnswerId, last>>
    /\ unchangedReset

\* acceptAnswer: UPDATE answers SET is_accepted = true WHERE id = id
AcceptAnswerSet(s) ==
    /\ reqs[s].op = "acceptAnswer" /\ reqs[s].pc = "set"
    /\ answers' = SetAccepted(answers, reqs[s].id)
    /\ reqs' = [reqs EXCEPT ![s].pc = "karma"]
    /\ UNCHANGED <<users, questions, nextAnswerId, last>>
    /\ unchangedReset

\* the handler: addKarma(answer.userId, ANSWER_ACCEPTED) if the answer has one; 200
AcceptAnswerKarma(s) ==
    /\ reqs[s].op = "acceptAnswer" /\ reqs[s].pc = "karma"
    /\ users' = IF reqs[s].arg # NoId
                THEN addKarma(users, reqs[s].arg, ANSWER_ACCEPTED)
                ELSE users
    /\ karmaInBounds(users')
    /\ last' = Resp("acceptAnswer", reqs[s].actor, reqs[s].id, 200)
    /\ reqs' = [reqs EXCEPT ![s] = Idle]
    /\ UNCHANGED <<questions, answers, nextAnswerId>>
    /\ unchangedReset

NextAccepts ==
    \/ \E s \in Slots, actor \in Actors, id \in VoteAnswerIds, q \in QuestionIdInputs :
           StartAcceptAnswer(s, actor, id, q)
    \/ \E s \in Slots : AcceptAnswerClear(s)
    \/ \E s \in Slots : AcceptAnswerSet(s)
    \/ \E s \in Slots : AcceptAnswerKarma(s)

SpecAccepts == InitForum /\ [][NextAccepts]_vars

\* C20: when no accept call is in progress, every question has at most one
\* accepted answer, however the accept calls on its answers interleaved.
C20_ConcurrentAcceptsLeaveOne ==
    (\A s \in Slots : reqs[s].op # "acceptAnswer") =>
        \A q \in DOMAIN questions : Cardinality(AcceptedOf(answers, q)) <= 1

(***************************************************************************)
(* addKarma calls in flight together.  A call is made (the request is on   *)
(* its way to the store) and later its one UPDATE statement runs; other    *)
(* calls can run theirs in between.                                        *)
(***************************************************************************)
\* An addKarma that computes the new value in the application, from the karma it
\* saw when the call was made
addKarmaFromSeen(us, userId, amount, seen) ==
    [u \in DOMAIN us |->
        IF u = userId
        THEN [us[u] EXCEPT !.karma = IF seen + amount > 0 THEN seen + amount ELSE 0]
        ELSE us[u]]

\* addKarma as the store runs it: GREATEST(0, karma + amount) is evaluated by the
\* UPDATE on the row as stored at that moment, whatever the caller saw before
addKarmaStatement(us, userId, amount, seen) == addKarma(us, userId, amount)

KarmaUserIds == {1, 4}
KarmaDeltas == {0 - MaxDelta, 0 - 1, 1, 2}

\* storage.addKarma(userId, amount) is called
StartAddKarma(s, userId, amount) ==
    /\ reqs[s] = Idle
    /\ reqs' = [reqs EXCEPT ![s] =
                  [Req("addKarma", "update", NoId, userId, NoId, amount)
                     EXCEPT !.seen = IF userId \in DOMAIN users
                                     THEN users[userId].karma ELSE 0]]
    /\ UNCHANGED <<users, questions, answers, nextAnswerId, last>>
    /\ unchangedReset

\* UPDATE users SET karma = GREATEST(0, karma + amount) WHERE id = userId; the call
\* returns
AddKarmaUpdate(s) ==
    /\ reqs[s].op = "addKarma" /\ reqs[s].pc = "update"
    /\ users' = addKarmaStatement(users, reqs[s].id, reqs[s].arg, reqs[s].seen)
    /\ karmaInBounds(users')
    /\ last' = [NoLast EXCEPT !.op = "addKarma",
                              !.id = IF reqs[s].id \in DOMAIN users THEN reqs[s].id
                                     ELSE NoId,
                              !.arg = reqs[s].arg,
                              !.seen = reqs[s].seen,
                              !.pre = IF reqs[s].id \in DOMAIN users
                                      THEN users[reqs[s].id].karma ELSE 0]
    /\ reqs' = [reqs EXCEPT ![s] = Idle]
    /\ UNCHANGED <<questions, answers, nextAnswerId>>
    /\ unchangedReset

NextKarmaSteps ==
    \/ \E s \in Slots, userId \in KarmaUserIds, amount \in KarmaDeltas :
           StartAddKarma(s, userId, amount)
    \/ \E s \in Slots : AddKarmaUpdate(s)

SpecKarmaSteps == InitContent /\ [][NextKarmaSteps]_vars

\* C21: every addKarma call, whatever other calls on the same user ran between its
\* start and its statement, leaves max(0, karma + amount) computed from the karma
\* stored when the statement runs, and changes no other row; so the calls take
\* effect one after the other, in the order of their statements, and no delta is lost.
C21_AddKarmaAtomic ==
    [][\A s \in Slots :
         (reqs[s].op = "addKarma" /\ reqs'[s].op = "idle") =>
            \A u \in DOMAIN users :
                users'[u].karma =
                    IF u = reqs[s].id
                    THEN (IF users[u].karma + reqs[s].arg > 0
                          THEN users[u].karma + reqs[s].arg ELSE 0)
                    ELSE users[u].karma
      ]_vars

\* C21 witness: a call whose user's karma was changed by another call after it was
\* made has run, and its delta was applied, with the clamp, to the changed karma.
C21_Witness ==
    /\ last.op = "addKarma" /\ last.id # NoId
    /\ last.seen # last.pre
    /\ last.seen + last.arg > 0 /\ last.pre + last.arg < 0
    /\ users[last.id].karma = 0

(***************************************************************************)
(* The vote handlers, statement by statement.  A request in flight keeps   *)
(* the direction in name, the author it found in ref, the votes of the     *)
(* row when its select ran in seen and the votes of the row just before    *)
(* its UPDATE ran in arg.                                                  *)
(***************************************************************************)
VoteIncrement(direction) == IF direction = "up" THEN 1 ELSE 0 - 1

\* A vote that writes back the value the handler read before, plus the increment
updateVotesFromSeen(rows, id, direction, seen) ==
    [i \in DOMAIN rows |->
        IF i = id THEN [rows[i] EXCEPT !.votes = seen + VoteIncrement(direction)]
        ELSE rows[i]]

\* updateQuestionVotes / updateAnswerVotes as the store runs them: votes + increment
\* is evaluated by the UPDATE on the row as stored at that moment
updateVotesStatement(rows, id, direction, seen) ==
    [i \in DOMAIN rows |->
        IF i = id THEN [rows[i] EXCEPT !.votes = @ + VoteIncrement(direction)]
        ELSE rows[i]]

VoteStepQuestionIds == {1}
VoteStepAnswerIds == {1}
VoteStepBodyQuestionIds == {NoId}

VotesOf(rows, id) == IF id \in DOMAIN rows THEN rows[id].votes ELSE 0

\* POST /api/questions/:id/vote: the direction check, then getQuestionById
StartVoteQuestion(s, id, direction) ==
    /\ reqs[s] = Idle
    /\ IF direction \notin {"up", "down"}
       THEN /\ last' = VoteReply("voteQuestion", NoId, id, 400, direction)
            /\ reqs' = reqs
       ELSE /\ reqs' = [reqs EXCEPT ![s] =
                          [Req("voteQuestion", "update", NoId, id,
                               IF getQuestionById(questions, id) # NoId
                               THEN questions[id].userId ELSE NoId, 0)
                             EXCEPT !.name = direction,
                                    !.seen = VotesOf(questions, id)]]
            /\ last' = last
    /\ UNCHANGED <<users, questions, answers, nextAnswerId>>
    /\ unchangedReset

\* storage.updateQuestionVotes(req.params.id, direction)
VoteQuestionUpdate(s) ==
    /\ reqs[s].op = "voteQuestion" /\ reqs[s].pc = "update"
    /\ questions' = updateVotesStatement(questions, reqs[s].id, reqs[s].name, reqs[s].seen)
    /\ votesInBounds(questions')
    /\ reqs' = [reqs EXCEPT ![s].pc = "karma", ![s].arg = VotesOf(questions, reqs[s].id)]
    /\ UNCHANGED <<users, answers, nextAnswerId, last>>
    /\ unchangedReset

\* POST /api/answers/:id/vote: the direction check, then getAnswersByQuestionId of
\* the questionId of the body and the search of the answer among them
StartVoteAnswer(s, id, questionId, direction) ==
    /\ reqs[s] = Idle
    /\ IF direction \notin {"up", "down"}
       THEN /\ last' = VoteReply("voteAnswer", NoId, id, 400, direction)
            /\ reqs' = reqs
       ELSE /\ reqs' = [reqs EXCEPT ![s] =
                          [Req("voteAnswer", "update", NoId, id,
                               IF id \in getAnswersByQuestionId(answers, questionId)
                               THEN answers[id].userId ELSE NoId, 0)
                             EXCEPT !.name = direction,
                                    !.seen = VotesOf(answers, id)]]
            /\ last' = last
    /\ UNCHANGED <<users, questions, answers, nextAnswerId>>
    /\ unchangedReset

\* storage.updateAnswerVotes(req.params.id, direction)
VoteAnswerUpdate(s) ==
    /\ reqs[s].op = "voteAnswer" /\ reqs[s].pc = "update"
    /\ answers' = updateVotesStatement(answers, reqs[s].id, reqs[s].name, reqs[s].seen)
    /\ votesInBounds(answers')
    /\ reqs' = [reqs EXCEPT ![s].pc = "karma", ![s].arg = VotesOf(answers, reqs[s].id)]
    /\ UNCHANGED <<users, questions, nextAnswerId, last>>
    /\ unchangedReset

\* addKarma for the author the select found, if any; then { success: true }
VoteKarma(s) ==
    /\ reqs[s].op \in {"voteQuestion", "voteAnswer"} /\ reqs[s].pc = "karma"
    /\ users' = IF reqs[s].ref # NoId
                THEN addKarma(users, reqs[s].ref, VoteReward(reqs[s].op, reqs[s].name))
                ELSE users
    /\ karmaInBounds(users')
    /\ last' = [VoteReply(reqs[s].op, NoId, reqs[s].id, 200, reqs[s].name)
                  EXCEPT !.seen = reqs[s].seen, !.pre = reqs[s].arg]
    /\ reqs' = [reqs EXCEPT ![s] = Idle]
    /\ UNCHANGED <<questions, answers, nextAnswerId>>
    /\ unchangedReset

NextVoteSteps ==
    \/ \E s \in Slots, id \in VoteStepQuestionIds, direction \in Directions :
           StartVoteQuestion(s, id, direction)
    \/ \E s \in Slots : VoteQuestionUpdate(s)
    \/ \E s \in Slots, id \in VoteStepAnswerIds, questionId \in VoteStepBodyQuestionIds,
          direction \in Directions :
           StartVoteAnswer(s, id, questionId, direction)
    \/ \E s \in Slots : VoteAnswerUpdate(s)
    \/ \E s \in Slots : VoteKarma(s)

SpecVoteSteps == InitForum /\ [][NextVoteSteps]_vars

\* The change of the votes of every row of a table in one step: inc on row id, none
\* on the others
VotesMoveBy(rows, rowsAfter, id, inc) ==
    /\ DOMAIN rowsAfter = DOMAIN rows
    /\ \A i \in DOMAIN rows :
           rowsAfter[i].votes = rows[i].votes + (IF i = id THEN inc ELSE 0)

\* C22: the votes of a question or an answer change only when the UPDATE of a vote
\* call runs, and then by exactly +1 for up and -1 for down from the value stored at
\* that moment, whatever the call read before and whoever voted before; so when all
\* calls have completed, votes = initial + number of ups - number of downs.
C22_VotesAreRelative ==
    [][/\ \A s \in Slots :
            LET inc == VoteIncrement(reqs[s].name) IN
            /\ (reqs[s].op = "voteQuestion" /\ reqs[s].pc = "update"
                  /\ reqs'[s].pc = "karma") =>
                   /\ VotesMoveBy(questions, questions', reqs[s].id, inc)
                   /\ VotesMoveBy(answers, answers', NoId, 0)
            /\ (reqs[s].op = "voteAnswer" /\ reqs[s].pc = "update"
                  /\ reqs'[s].pc = "karma") =>
                   /\ VotesMoveBy(answers, answers', reqs[s].id, inc)
                   /\ VotesMoveBy(questions, questions', NoId, 0)
       /\ (\A s \in Slots : ~(reqs[s].pc = "update" /\ reqs'[s].pc = "karma")) =>
              /\ VotesMoveBy(questions, questions', NoId, 0)
              /\ VotesMoveBy(answers, answers', NoId, 0)
      ]_vars

\* C22 witness: a down vote has completed on a row whose votes another call changed
\* between this call's read and its UPDATE, and the row's votes are below zero.
C22_Witness ==
    /\ last.op = "voteQuestion" /\ last.status = 200 /\ last.dir = "down"
    /\ last.seen # last.pre
    /\ last.id \in DOMAIN questions /\ questions[last.id].votes < 0
    /\ \A s \in Slots : reqs[s] = Idle

(***************************************************************************)
(* Two resets that present the same token, over the statements of          *)
(* usePasswordResetToken (SpecResetSteps).                                 *)
(***************************************************************************)
\* C23: a token replaces a password at most once: the password write of a reset
\* through a token runs only if no other reset through that token has written the
\* password already, whether that one has marked the token yet or not.
C23_TokenSingleUseConcurrent ==
    [][\A s \in Slots :
         (reqs[s].op = "consumeReset" /\ reqs[s].pc = "password"
            /\ reqs'[s].pc = "mark") =>
             /\ reqs[s].id \notin consumed
             /\ \A o \in Slots \ {s} :
                    ~(reqs[o].op = "consumeReset" /\ reqs[o].pc = "mark"
                        /\ reqs[o].id = reqs[s].id)
      ]_vars

(***************************************************************************)
(* deleteQuestion against createAnswer on the same question, over their    *)
(* statements (SpecDeleteQuestion).                                        *)
(***************************************************************************)
\* C24: whenever no deleteQuestion and no createAnswer call is in progress, every
\* stored answer refers to a stored question and every stored question's answerCount
\* is the number of stored answers that refer to it.
C24_DeleteQuestionVsCreateAnswer ==
    (~AnswerCallInProgress /\ \A s \in Slots : reqs[s].op # "deleteQuestion") =>
        /\ \A a \in DOMAIN answers : answers[a].questionId \in DOMAIN questions
        /\ \A q \in DOMAIN questions : questions[q].answerCount = LiveAnswerCount(q)

(***************************************************************************)
(* One accept at a time: the statements of acceptAnswer with no other      *)
(* request between them, and a request that can stop between two of them.  *)
(***************************************************************************)
\* The one request in flight
AloneSlots == {1}

\* The store rejects the statement the request is about to run, or the process
\* stops there: the call throws, the handler answers 500 and undoes nothing
AcceptAnswerStoreFails(s) ==
    /\ reqs[s].op = "acceptAnswer" /\ reqs[s].pc \in {"clear", "set"}
    /\ last' = [Resp("acceptAnswer", reqs[s].actor, reqs[s].id, 500)
                  EXCEPT !.error = reqs[s].pc, !.pre = reqs[s].seen]
    /\ reqs' = [reqs EXCEPT ![s] = Idle]
    /\ UNCHANGED <<users, questions, answers, nextAnswerId>>
    /\ unchangedReset

NextAcceptAlone ==
    \/ \E s \in AloneSlots, actor \in Actors, id \in VoteAnswerIds, q \in QuestionIdInputs :
           StartAcceptAnswer(s, actor, id, q)
    \/ \E s \in AloneSlots : AcceptAnswerClear(s)
    \/ \E s \in AloneSlots : AcceptAnswerSet(s)
    \/ \E s \in AloneSlots : AcceptAnswerKarma(s)
    \/ \E s \in AloneSlots : AcceptAnswerStoreFails(s)

SpecAcceptAlone == InitForum /\ [][NextAcceptAlone]_vars

\* C25: with one accept at a time, each naming an answer with its own question,
\* every state, also between the two statements and after a request that stopped
\* there, has at most one accepted answer per question; and between the clear and
\* the set the question has none.
C25_AcceptStepsKeepOne ==
    /\ \A q \in DOMAIN questions : Cardinality(AcceptedOf(answers, q)) <= 1
    /\ \A s \in AloneSlots :
           (reqs[s].op = "acceptAnswer" /\ reqs[s].pc = "set") =>
               AcceptedOf(answers, reqs[s].ref) = {}

\* C25 witness: an accept of another answer of a question that had an accepted
\* answer stopped between the clear and the set, and the question has none.
C25_Witness ==
    /\ last.op = "acceptAnswer" /\ last.status = 500 /\ last.error = "set"
    /\ last.pre = 1
    /\ last.id \in DOMAIN answers
    /\ AcceptedOf(answers, answers[last.id].questionId) = {}

(***************************************************************************)
(* The owner role and the actor's own role under role-change requests      *)
(* (SpecRole).                                                             *)
(***************************************************************************)
OwnersOf(us) == {u \in DOMAIN us : us[u].role = "owner"}

\* C26: no role-change request changes the set of users with role owner: a request
\* that asks for the owner role and a request on a user who is owner both fail and
\* change no role.
C26_OwnerSetFixed ==
    [][/\ OwnersOf(users') = OwnersOf(users)
       /\ (last'.op = "changeRole" /\ last'.role = "owner") =>
              (last'.status # 200 /\ users' = users)
       /\ (last'.op = "changeRole" /\ last'.id \in OwnersOf(users)) =>
              (last'.status # 200 /\ users' = users)
      ]_vars

\* C26 witness: an admin asked to make the owner a member and was refused; the owner
\* is still owner.
C26_Witness ==
    /\ last.op = "changeRole" /\ last.status = 403 /\ last.role = "member"
    /\ last.actor # NoId /\ users[last.actor].role = "admin"
    /\ last.id # NoId /\ users[last.id].role = "owner"

\* C27: a role-change request whose target is its own actor is refused, whatever the
\* actor's role and the role asked for, and leaves the actor's role as it was.
C27_NoSelfRoleChange ==
    [][(last'.op = "changeRole" /\ last'.actor # NoId /\ last'.id = last'.actor) =>
          /\ last'.status \in {400, 403}
          /\ users'[last'.actor].role = users[last'.actor].role
      ]_vars

\* C27 witness: an admin asked to make themself a member and was refused with 403.
C27_Witness ==
    /\ last.op = "changeRole" /\ last.status = 403 /\ last.role = "member"
    /\ last.actor # NoId /\ last.id = last.actor
    /\ users[last.actor].role = "admin"

(***************************************************************************)
(* Requests that arrive with a session cookie: authMiddleware resolves the *)
(* session to req.user, the gates and the handlers read req.user.          *)
(***************************************************************************)
\* A middleware that takes the role the user had when the session was created
authMiddlewareRoleAtLogin(ss, us, sid, t) ==
    LET id == getSession(ss, us, sid, t) IN
    [id |-> id, role |-> IF id = NoId THEN "" ELSE loginRole[sid]]

\* authMiddleware: req.user = session.user, the users row that getSession joined
\* to the sessions row when this request arrived; no req.user without a session
authMiddleware(ss, us, sid, t) ==
    LET id == getSession(ss, us, sid, t) IN
    [id |-> id, role |-> IF id = NoId THEN "" ELSE us[id].role]

\* requireRole(...roles) on req.user
requireRoleOf(user, roles) ==
    IF user.id = NoId THEN 401
    ELSE IF user.role \notin roles THEN 403
    ELSE 0

\* The checks of PATCH /api/admin/users/:id/role on req.user and on the target row
\* that storage.getUser returns
changeRoleStatusOf(user, us, targetId, role) ==
    LET gate == requireRoleOf(user, {"owner", "admin"}) IN
    IF gate # 0 THEN gate
    ELSE IF role \notin AssignableRoles THEN 400
    ELSE IF targetId \notin DOMAIN us THEN 404
    ELSE IF us[targetId].role = "owner" THEN 403
    ELSE IF role = "admin" /\ user.role # "owner" THEN 403
    ELSE IF us[targetId].role = "admin" /\ user.role # "owner" THEN 403
    ELSE 200

SessionUsernames == {"carol", "dave", "olga"}
SessionRoleTargets == {2, 3, 6}
SessionQuestionIds == {1, 3}

\* PATCH /api/admin/users/:id/role with the cookie session_id = sid; arg keeps sid
ChangeRoleAs(sid, targetId, role) ==
    LET user == authMiddleware(sessions, users, sid, now)
        status == changeRoleStatusOf(user, users, targetId, role)
    IN
    /\ users' = IF status = 200 THEN updateUserRole(users, targetId, role) ELSE users
    /\ last' = [Resp("changeRole", user.id, targetId, status)
                  EXCEPT !.role = role, !.arg = sid]
    /\ UNCHANGED <<questions, answers, nextAnswerId, reqs>>
    /\ unchangedReset

\* POST /api/questions/:id/pin with the cookie session_id = sid; arg keeps sid
PinQuestionAs(sid, id) ==
    LET user == authMiddleware(sessions, users, sid, now)
        gate == requireRoleOf(user, Moderators)
    IN
    /\ IF gate # 0
       THEN /\ last' = [Resp("pinQuestion", user.id, id, gate) EXCEPT !.arg = sid]
            /\ questions' = questions
       ELSE IF getQuestionById(questions, id) = NoId
       THEN /\ last' = [Resp("pinQuestion", user.id, id, 404) EXCEPT !.arg = sid]
            /\ questions' = questions
       ELSE /\ questions' = updateQuestion(questions, id, "", "",
                                           IF questions[id].isPinned THEN "unpin"
                                           ELSE "pin")
            /\ last' = [Resp("pinQuestion", user.id, id, 200) EXCEPT !.arg = sid]
    /\ UNCHANGED <<users, answers, nextAnswerId, reqs>>
    /\ unchangedReset

NextSessionRole ==
    \/ \E username \in SessionUsernames, pw \in Passwords : Login(username, pw)
    \/ \E sid \in SessionIdInputs, targetId \in SessionRoleTargets, role \in Roles :
           ChangeRoleAs(sid, targetId, role)
    \/ \E sid \in SessionIdInputs, id \in SessionQuestionIds : PinQuestionAs(sid, id)

SpecSessionRole == InitForum /\ [][NextSessionRole]_vars

\* C28: a request made with a session is gated by the role stored for the session's
\* user when the request arrives, which is the role the last completed role change
\* gave that user, whenever the session was created: the role-change route answers
\* what its checks give on the stored roles, the pin route answers 403 exactly when
\* the stored role is not moderator, admin or owner.
C28_GateUsesStoredRole ==
    [][(last'.op \in {"changeRole", "pinQuestion"}) =>
         LET U == getSession(sessions, users, last'.arg, now) IN
         /\ last'.actor = U
         /\ U = NoId => last'.status = 401
         /\ U # NoId =>
              /\ last'.op = "changeRole" =>
                     last'.status = changeRoleStatus(users, U, last'.id, last'.role)
              /\ last'.op = "pinQuestion" =>
                     /\ last'.status = 403 <=> users[U].role \notin Moderators
                     /\ last'.status \in {200, 403, 404}
      ]_vars

\* C28 witness: a user who signed in as moderator and was made a member afterwards
\* asked, with the session of that sign-in, to pin a stored question and was refused.
C28_Witness ==
    /\ last.op = "pinQuestion" /\ last.status = 403
    /\ last.arg \in DOMAIN sessions /\ last.actor = sessions[last.arg].userId
    /\ loginRole[last.arg] = "moderator"
    /\ users[last.actor].role = "member"
    /\ last.id \in DOMAIN questions

(***************************************************************************)
(* Password reset next to sessions: sign-ins, reset requests and resets of *)
(* two users, each request run alone.                                      *)
(***************************************************************************)
FrameLoginNames == {"alice"}
FrameResetNames == {"alice", "bob"}
FrameNewPasswords == {"secret2"}

NextResetFrame ==
    \/ \E username \in FrameLoginNames, pw \in Passwords : Login(username, pw)
    \/ \E username \in FrameResetNames : RequestReset(username)
    \/ \E token \in TokenInputs, pw \in FrameNewPasswords : ConsumeReset(token, pw)
    \/ Tick

SpecResetFrame == InitReset /\ [][NextResetFrame]_vars

\* C29: a successful reset changes the password of the token's user and the usedAt
\* of the presented token and nothing else: no other column of that user, no other
\* user, no other token, no session, no question and no answer; so every session of
\* the user that resolved before still resolves and every other token that was
\* accepted before is still accepted.
C29_ResetFrame ==
    [][(last'.op = "consumeReset" /\ last'.status = 200) =>
         LET token == last'.id
             user == resetTokens[token].userId
         IN
         /\ DOMAIN users' = DOMAIN users
         /\ \A u \in DOMAIN users :
                IF u = user
                THEN users'[u] = [users[u] EXCEPT !.password = users'[u].password]
                ELSE users'[u] = users[u]
         /\ DOMAIN resetTokens' = DOMAIN resetTokens
         /\ \A k \in DOMAIN resetTokens :
                IF k = token
                THEN resetTokens'[k] = [resetTokens[k] EXCEPT !.usedAt = now]
                ELSE resetTokens'[k] = resetTokens[k]
         /\ sessions' = sessions
         /\ \A sid \in DOMAIN sessions :
                getSession(sessions', users', sid, now') = getSession(sessions, users, sid, now)
         /\ \A k \in DOMAIN resetTokens \ {token} :
                getPasswordResetToken(resetTokens', users', k, now')
                    = getPasswordResetToken(resetTokens, users, k, now)
         /\ questions' = questions /\ answers' = answers
      ]_vars

\* C29 witness: a reset has succeeded for a user who has a session that resolves and
\* another reset token that is still accepted.
C29_Witness ==
    /\ last.op = "consumeReset" /\ last.status = 200
    /\ \E sid \in DOMAIN sessions :
           getSession(sessions, users, sid, now) = resetTokens[last.id].userId
    /\ \E k \in DOMAIN resetTokens \ {last.id} :
           /\ resetTokens[k].userId = resetTokens[last.id].userId
           /\ getPasswordResetToken(resetTokens, users, k, now) = k

(***************************************************************************)
(* Votes on ids that are not stored and votes with a direction that is     *)
(* neither up nor down, each request run alone.                            *)
(***************************************************************************)
NoVoter == {NoId}
VoteErrorQuestionIds == {1, 3}
VoteErrorAnswerIds == {1, 3}
VoteErrorBodyQuestionIds == {NoId, 1, 3}

NextVoteErrors ==
    \/ \E actor \in NoVoter, id \in VoteErrorQuestionIds, direction \in Directions :
           VoteQuestion(actor, id, direction)
    \/ \E actor \in NoVoter, id \in VoteErrorAnswerIds,
          questionId \in VoteErrorBodyQuestionIds, direction \in Directions :
           VoteAnswer(actor, id, questionId, direction)

SpecVoteErrors == InitForum /\ [][NextVoteErrors]_vars

\* C30: a vote with direction up or down on a question id or an answer id that is
\* not stored is answered 200 and changes no votes and no karma; a vote with any
\* other direction is answered 400 and changes nothing.
C30_VoteOnMissingOrInvalid ==
    [][(last'.op \in {"voteQuestion", "voteAnswer"}) =>
         LET stored == IF last'.op = "voteQuestion" THEN last'.id \in DOMAIN questions
                       ELSE last'.id \in DOMAIN answers
             same == users' = users /\ questions' = questions /\ answers' = answers
         IN
         /\ last'.dir \notin {"up", "down"} => (last'.status = 400 /\ same)
         /\ (last'.dir \in {"up", "down"} /\ ~stored) => (last'.status = 200 /\ same)
      ]_vars

\* C30 witness: an up vote on a question id that is not stored was answered 200
\* while stored questions have votes that earlier requests changed.
C30_Witness ==
    /\ last.op = "voteQuestion" /\ last.status = 200 /\ last.dir = "up"
    /\ last.id \notin DOMAIN questions
    /\ \E q \in DOMAIN questions : questions[q].votes # 0

====
